---- MODULE Spec2Model ----
(***************************************************************************)
(* State-machine model of the go-rest-api server: the in-memory store      *)
(* (models.Database), the HTTP handlers (handlers.APIHandlers), the auth   *)
(* and role middleware, and the dynamic-endpoint router built on           *)
(* gorilla/mux.  One action is one HTTP request served end to end.         *)
(***************************************************************************)
EXTENDS Integers, Sequences, FiniteSets, TLC

(***************************************************************************)
(* Bounds of the model.                                                    *)
(***************************************************************************)
\* number of ids uuid.New() hands out in a run (users and resources share it)
MaxUuid == 3
\* number of dynamic routes the protected router may accumulate
MaxRoutes == 2
\* number of requests served in a run
MaxRequests == 6
\* number of resources in the stores the store functions are applied to
MaxStored == 2
\* clock ticks in a second: the resolution of the clock reads
TicksPerSecond == 2
\* clock ticks that may pass between two successive reads of the clock
MaxDelay == 1
\* number of requests begun while another may be part-way through its handler
MaxInFlightOps == 3
\* number of store operations applied in a row to a drawn store
MaxStoreOps == 2

(***************************************************************************)
(* Value domains the requests are drawn from.                              *)
(***************************************************************************)
Usernames == {"root", "ann", "bob"}
Passwords == {"pw1"}
Emails    == {"e1", "e2"}
Paths     == {"/x", "/setup"}
Methods   == {"GET", "POST"}
Responses == {"resp1", "resp2"}

\* ids: the setup user has the fixed id "1", everything else a fresh uuid,
\* and the zero value "" of an id field that was never assigned
SetupID   == <<"fixed", 1>>
NoID      == <<"empty", 0>>
Uuid(n)   == <<"uuid", n>>

\* pkg/config: JWT_SECRET; the key a forged token is signed with
JWTSecret == "server-secret"
OtherKey  == "other-secret"

\* pkg/config: JWT_EXPIRATION, the lifetime of a token in seconds (24h)
JWTExpiration == 86400

\* the instant, in clock ticks, at which the requests of a run are served:
\* late enough for a token issued at tick 0 to have expired
Clock == 2 * JWTExpiration * TicksPerSecond

(***************************************************************************)
(* HTTP status codes of net/http used by the handlers.                     *)
(***************************************************************************)
StatusOK                  == 200
StatusCreated             == 201
StatusAccepted            == 202
StatusBadRequest          == 400
StatusUnauthorized        == 401
StatusForbidden           == 403
StatusNotFound            == 404
StatusMethodNotAllowed    == 405
StatusInternalServerError == 500

VARIABLES
    Users,      \* Database.Users: username -> user record
    Resources,  \* Database.Resources: id -> resource record
    Setup,      \* Database.Setup: the one-time setup gate
    routes,     \* dynamic routes of the protected subrouter, in registration order
    tokens,     \* tokens handed out by Login so far
    nextUuid,   \* how many uuids have been generated
    nreq,       \* how many requests have been served
    last,       \* the request served last and its response
    inflight,   \* the request a handler is part-way through, and how many
                \* panics the Recovery middleware has caught
    calls,      \* goroutine -> the handler or store call it is part-way through
    mutex       \* Database.mutex: its holders and the writers waiting for it

vars == <<Users, Resources, Setup, routes, tokens, nextUuid, nreq, last, inflight,
          calls, mutex>>

(***************************************************************************)
(* pkg/errors: application errors and the response envelope.               *)
(***************************************************************************)
NoBody == [kind |-> "none"]

Response(status, code, msg, body) ==
    [status |-> status, code |-> code, msg |-> msg, body |-> body]

BadRequest(msg)          == Response(StatusBadRequest, "BAD_REQUEST", msg, NoBody)
ValidationError(msg)     == Response(StatusBadRequest, "VALIDATION_ERROR", msg, NoBody)
Unauthorized(msg)        == Response(StatusUnauthorized, "UNAUTHORIZED", msg, NoBody)
Forbidden(msg)           == Response(StatusForbidden, "FORBIDDEN", msg, NoBody)
NotFound(msg)            == Response(StatusNotFound, "NOT_FOUND", msg, NoBody)
InternalServerError(msg) == Response(StatusInternalServerError, "INTERNAL_SERVER_ERROR", msg, NoBody)

\* APIHandlers.writeStandardError: status and message, no error code
writeStandardError(status, msg) == Response(status, "", msg, NoBody)

\* APIHandlers.writeSuccessResponse / writeStandardResponse
writeSuccessResponse(body)          == Response(StatusOK, "", "", body)
writeStandardResponse(status, body) == Response(status, "", "", body)

(***************************************************************************)
(* pkg/auth: passwords, tokens, bearer header, claims.                     *)
(***************************************************************************)
\* a bcrypt hash is a value that is not the password and that
\* CompareHashAndPassword matches against the passwords of the same key
\* the bytes of a password bcrypt can take: GenerateFromPassword and
\* CompareHashAndPassword key the cipher with no more than these
MaxBcryptBytes == 72

\* a key that holds nothing of the password
BcryptKey_none(p) == <<>>

\* the part of a password that bcrypt keys the cipher with
BcryptKey(p) == IF Len(p) > MaxBcryptBytes THEN SubSeq(p, 1, MaxBcryptBytes) ELSE p

\* AuthService.HashPassword, that is bcrypt.GenerateFromPassword, on a
\* password: releases of the library differ on one longer than
\* MaxBcryptBytes, which some refuse (rejectsLong: the hash is then the empty
\* string, with an error) and the others cut short.  Returns [ok, hash].
HashPasswordIn(p, rejectsLong) ==
    IF rejectsLong /\ Len(p) > MaxBcryptBytes
    THEN [ok |-> FALSE, hash |-> <<>>]
    ELSE [ok |-> TRUE, hash |-> <<"bcrypt", BcryptKey(p)>>]

\* AuthService.HashPassword on the passwords of the requests, none of which
\* is longer than MaxBcryptBytes
HashPassword(p) == HashPasswordIn(p, FALSE).hash

\* a CheckPassword that accepts every password
CheckPassword_any(p, hash) == TRUE

CheckPassword(p, hash) == hash = <<"bcrypt", BcryptKey(p)>>

\* jwt.NewNumericDate: an instant, given in clock ticks, truncated to the
\* whole second (jwt.TimePrecision)
NewNumericDate(t) == t \div TicksPerSecond

\* the registered and private claims a token carries
Payload(userID, username, roles, exp, iat, nbf) ==
    [user_id |-> userID, username |-> username, roles |-> roles,
     exp |-> exp, iat |-> iat, nbf |-> nbf]

PayloadOf(t) == Payload(t.user_id, t.username, t.roles, t.exp, t.iat, t.nbf)

\* the signature of a signing method over header and payload under a key:
\* a value equal only to the signature of the same method, key and payload
Sign(alg, key, payload) == <<"sig", alg, key, payload>>

\* jwt.NewWithClaims(method, claims) followed by SignedString(key)
SignedString(alg, key, payload) ==
    [wf |-> TRUE, alg |-> alg, user_id |-> payload.user_id,
     username |-> payload.username, roles |-> payload.roles,
     exp |-> payload.exp, iat |-> payload.iat, nbf |-> payload.nbf,
     sig |-> Sign(alg, key, payload), pad |-> FALSE]

\* AuthService.GenerateToken with its three reads of the clock, t1 for
\* ExpiresAt, t2 for IssuedAt and t3 for NotBefore: HS256, server secret
GenerateTokenAt(userID, username, roles, t1, t2, t3) ==
    SignedString("HS256", JWTSecret,
                 Payload(userID, username, roles,
                         NewNumericDate(t1 + JWTExpiration * TicksPerSecond),
                         NewNumericDate(t2), NewNumericDate(t3)))

\* AuthService.GenerateToken at the instant the requests of a run are served
GenerateToken(userID, username, roles) ==
    GenerateTokenAt(userID, username, roles, Clock, Clock, Clock)

\* the empty string in place of a token, and a string that is not a JWT
EmptyToken   == [wf |-> FALSE, alg |-> "", user_id |-> NoID, username |-> "",
                 roles |-> <<>>, exp |-> 0, iat |-> 0, nbf |-> 0, sig |-> <<>>,
                 pad |-> FALSE]
GarbageToken == [wf |-> FALSE, alg |-> "garbage", user_id |-> NoID, username |-> "",
                 roles |-> <<>>, exp |-> 0, iat |-> 0, nbf |-> 0, sig |-> <<>>,
                 pad |-> FALSE]

\* a token string with white space other than the space character (a tab)
\* around it, and the string of such white space only
Padded(t)  == [t EXCEPT !.pad = TRUE]
BlankToken == Padded(EmptyToken)

\* strings.TrimSpace
TrimSpace(t) == [t EXCEPT !.pad = FALSE]

\* the signing methods of type *jwt.SigningMethodHMAC
HMACMethods == {"HS256", "HS384", "HS512"}

\* a validation that does not verify the signature
ValidateTokenAt_unverified(t, now) ==
    /\ t.wf /\ ~t.pad
    /\ t.alg \in HMACMethods
    /\ now < t.exp * TicksPerSecond
    /\ now >= t.nbf * TicksPerSecond

\* AuthService.ValidateToken at the instant now: jwt.ParseWithClaims parses
\* the token (a string with white space around it is no JWT), the key function insists on an HMAC method, the signature is
\* verified with the server secret, and the validator wants now before exp
\* and not before nbf
ValidateTokenAt(t, now) ==
    /\ t.wf /\ ~t.pad
    /\ t.alg \in HMACMethods
    /\ t.sig = Sign(t.alg, JWTSecret, PayloadOf(t))
    /\ now < t.exp * TicksPerSecond
    /\ now >= t.nbf * TicksPerSecond

\* AuthService.ValidateToken at the instant the requests of a run are served
ValidateToken(t) == ValidateTokenAt(t, Clock)

\* the claims ValidateToken returns
ClaimsOf(t) == [user_id |-> t.user_id, username |-> t.username, roles |-> t.roles]

\* strings.ToLower on the schemes that occur
ToLower(s) ==
    CASE s = "Bearer" -> "bearer"
      [] s = "BEARER" -> "bearer"
      [] s = "Basic"  -> "basic"
      [] OTHER        -> s

\* an ExtractBearerToken that wants the scheme spelled Bearer
ExtractBearerToken_caseSensitive(hdr) ==
    IF hdr = <<>>
    THEN [ok |-> FALSE, token |-> EmptyToken,
          err |-> Unauthorized("Authorization header is required")]
    ELSE IF Len(hdr) # 2 \/ hdr[1] # "Bearer"
    THEN [ok |-> FALSE, token |-> EmptyToken,
          err |-> Unauthorized("Invalid authorization header format")]
    ELSE IF TrimSpace(hdr[2]) = EmptyToken
    THEN [ok |-> FALSE, token |-> EmptyToken,
          err |-> Unauthorized("Token is required")]
    ELSE [ok |-> TRUE, token |-> TrimSpace(hdr[2]), err |-> NoBody]

\* ExtractBearerToken on a header given as its parts between single spaces
\* (<<>> is the empty header).  Returns [ok, token, err].
ExtractBearerToken(hdr) ==
    IF hdr = <<>>
    THEN [ok |-> FALSE, token |-> EmptyToken,
          err |-> Unauthorized("Authorization header is required")]
    ELSE IF Len(hdr) # 2 \/ ToLower(hdr[1]) # "bearer"
    THEN [ok |-> FALSE, token |-> EmptyToken,
          err |-> Unauthorized("Invalid authorization header format")]
    ELSE IF TrimSpace(hdr[2]) = EmptyToken
    THEN [ok |-> FALSE, token |-> EmptyToken,
          err |-> Unauthorized("Token is required")]
    ELSE [ok |-> TRUE, token |-> TrimSpace(hdr[2]), err |-> NoBody]

\* a HasRole that looks at the first role of the claims only
HasRole_first(claims, role) == claims.roles # <<>> /\ claims.roles[1] = role

\* Claims.HasRole
HasRole(claims, role) == \E i \in 1..Len(claims.roles) : claims.roles[i] = role

\* a HasAnyRole that finds a common role in any two lists
HasAnyRole_always(claims, roles) == TRUE

\* Claims.HasAnyRole
HasAnyRole(claims, roles) == \E i \in 1..Len(roles) : HasRole(claims, roles[i])

(***************************************************************************)
(* pkg/middleware: Auth and RequireRole.  Each returns [pass, claims, err]. *)
(***************************************************************************)
NoClaims == [user_id |-> NoID, username |-> "", roles |-> <<>>]

\* an Auth that tells an expired token from the other failures
Auth_tellsExpiry(hdr) ==
    LET ex == ExtractBearerToken(hdr) IN
    IF ~ex.ok
    THEN [pass |-> FALSE, claims |-> NoClaims, err |-> ex.err]
    ELSE IF ~ValidateToken(ex.token)
    THEN [pass |-> FALSE, claims |-> NoClaims,
          err |-> IF ex.token.wf /\ Clock >= ex.token.exp * TicksPerSecond
                  THEN Unauthorized("Token expired")
                  ELSE Unauthorized("Invalid or expired token")]
    ELSE [pass |-> TRUE, claims |-> ClaimsOf(ex.token), err |-> NoBody]

\* Auth: the bearer token of the Authorization header, validated; its claims
\* go into the request context
Auth(hdr) ==
    LET ex == ExtractBearerToken(hdr) IN
    IF ~ex.ok
    THEN [pass |-> FALSE, claims |-> NoClaims, err |-> ex.err]
    ELSE IF ~ValidateToken(ex.token)
    THEN [pass |-> FALSE, claims |-> NoClaims,
          err |-> Unauthorized("Invalid or expired token")]
    ELSE [pass |-> TRUE, claims |-> ClaimsOf(ex.token), err |-> NoBody]

\* a RequireRole that tests the roles before it tests for claims
RequireRole_rolesFirst(roles, hasClaims, claims) ==
    IF ~HasAnyRole(claims, roles)
    THEN [pass |-> FALSE, err |-> Forbidden("Insufficient permissions")]
    ELSE IF ~hasClaims
    THEN [pass |-> FALSE, err |-> Unauthorized("Authentication required")]
    ELSE [pass |-> TRUE, err |-> NoBody]

\* RequireRole(roles...) on a request whose context holds claims (hasClaims)
RequireRole(roles, hasClaims, claims) ==
    IF ~hasClaims
    THEN [pass |-> FALSE, err |-> Unauthorized("Authentication required")]
    ELSE IF ~HasAnyRole(claims, roles)
    THEN [pass |-> FALSE, err |-> Forbidden("Insufficient permissions")]
    ELSE [pass |-> TRUE, err |-> NoBody]

\* the middleware chain of the /admin/users subrouter: Auth, then RequireRole("admin")
\* a chain that also wants the user of the token stored as an admin
AdminChain_storeChecked(hdr) ==
    LET a == Auth(hdr) IN
    IF ~a.pass THEN a
    ELSE LET r == RequireRole(<<"admin">>, TRUE, a.claims) IN
         IF ~r.pass THEN [pass |-> FALSE, claims |-> a.claims, err |-> r.err]
         ELSE IF ~\E u \in DOMAIN Users :
                    Users[u].id = a.claims.user_id /\ Users[u].role = "admin"
         THEN [pass |-> FALSE, claims |-> a.claims,
               err |-> Forbidden("Insufficient permissions")]
         ELSE a

AdminChain(hdr) ==
    LET a == Auth(hdr) IN
    IF ~a.pass THEN a
    ELSE LET r == RequireRole(<<"admin">>, TRUE, a.claims) IN
         IF ~r.pass THEN [pass |-> FALSE, claims |-> a.claims, err |-> r.err]
         ELSE a

(***************************************************************************)
(* internal/models: records, the store and the authorization policy.       *)
(***************************************************************************)
\* Resource.Data is a map[string]interface{} that may be nil; a value is
\* tagged with its JSON type so that a .(string) assertion can fail
NilData == [nil |-> TRUE, m |-> [k \in {} |-> <<"str", "">>]]
MapData(m) == [nil |-> FALSE, m |-> m]

Str(s) == <<"str", s>>
Num(n) == <<"num", n>>
Obj(o) == <<"obj", o>>

\* data carrying endpoint, method and response
EndpointData(endpoint, method, response) ==
    MapData([k \in {"endpoint", "method", "response"} |->
                CASE k = "endpoint" -> Str(endpoint)
                  [] k = "method"   -> Str(method)
                  [] OTHER          -> Obj(response)])

\* data without an endpoint: only a response key
PlainData(response) == MapData([k \in {"response"} |-> Obj(response)])

\* v, ok := data[key].(string)
HasString(data, key) == key \in DOMAIN data.m /\ data.m[key][1] = "str"

\* the test the handlers make before registering a route: data not nil, a
\* string endpoint, a string method and a response key
HasEndpointData(data) ==
    /\ ~data.nil
    /\ HasString(data, "endpoint")
    /\ HasString(data, "method")
    /\ "response" \in DOMAIN data.m

User(id, username, email, password, role, createdBy) ==
    [id |-> id, username |-> username, email |-> email, password |-> password,
     role |-> role, created_by |-> createdBy, created_at |-> 0, updated_at |-> 0]

\* User.ToResponse: the user without the password hash
ToResponse(u) ==
    [id |-> u.id, username |-> u.username, email |-> u.email,
     role |-> u.role, created_by |-> u.created_by,
     created_at |-> u.created_at, updated_at |-> u.updated_at]

Resource(id, name, description, data, createdBy) ==
    [id |-> id, name |-> name, description |-> description, data |-> data,
     created_by |-> createdBy]

IsSuperAdmin(u) == u.role = "super_admin"

IsAdmin(u) == u.role = "admin" \/ u.role = "super_admin"

CanManageUser(u, target) ==
    IF IsSuperAdmin(u) THEN TRUE
    ELSE IF IsAdmin(u) /\ target.created_by = u.id THEN TRUE
    ELSE u.id = target.id

CanManageResource(u, resource) ==
    IF IsSuperAdmin(u) THEN TRUE
    ELSE IF IsAdmin(u) /\ resource.created_by = u.id THEN TRUE
    ELSE FALSE

\* a CanViewResource without the clause for the users of one admin
CanViewResource_managersOnly(u, resource) ==
    IF IsSuperAdmin(u) THEN TRUE
    ELSE IF IsAdmin(u) /\ resource.created_by = u.id THEN TRUE
    ELSE FALSE

CanViewResource(u, resource) ==
    IF IsSuperAdmin(u) THEN TRUE
    ELSE IF IsAdmin(u) /\ resource.created_by = u.id THEN TRUE
    ELSE IF u.role = "user" /\ resource.created_by = u.created_by THEN TRUE
    ELSE FALSE

\* Store operations are functions of the collection they lock; each returns
\* the new collection (and the handlers test the error condition first).
Range(f) == {f[k] : k \in DOMAIN f}

\* the store's errors
ErrResourceNotFound == "resource not found"
ErrUserNotFound     == "user not found"
ErrUserExists       == "user already exists"

\* Database.CreateUser: ErrUserExists iff the username is taken
DbUserExists(users, username) == username \in DOMAIN users

\* the user as Database.CreateUser stamps it, through the pointer the
\* caller holds as well, with its two reads of the clock
Stamped(user, t1, t2) == [user EXCEPT !.created_at = t1, !.updated_at = t2]

\* a CreateUser that replaces the user stored under the username
DbCreateUserAt_overwrites(users, user, t1, t2) ==
    [n \in DOMAIN users \cup {user.username} |->
        IF n = user.username THEN Stamped(user, t1, t2) ELSE users[n]]

\* Database.CreateUser with its clock reads t1 and t2: the users after it
DbCreateUserAt(users, user, t1, t2) ==
    IF DbUserExists(users, user.username) THEN users
    ELSE [n \in DOMAIN users \cup {user.username} |->
             IF n = user.username THEN Stamped(user, t1, t2) ELSE users[n]]

\* Database.CreateUser at the instant the requests of a run are served
DbCreateUser(users, user) == DbCreateUserAt(users, user, Clock, Clock)

\* the error Database.CreateUser returns ("" for nil)
DbCreateUserErr(users, user) ==
    IF DbUserExists(users, user.username) THEN ErrUserExists ELSE ""

\* Database.GetUser: [user, err]
DbGetUser(users, username) ==
    IF username \in DOMAIN users
    THEN [user |-> users[username], err |-> ""]
    ELSE [user |-> User(NoID, "", "", <<>>, "", NoID), err |-> ErrUserNotFound]

\* Database.GetUserByID: a scan of the map in Go's unspecified iteration
\* order that returns the first match; the set of users it can return
DbGetUserByID(users, id) == {u \in Range(users) : u.id = id}

\* an UpdateUser that overwrites the fields with empty values too
DbUpdateUserAt_blanks(users, username, updates, now) ==
    IF username \notin DOMAIN users THEN users
    ELSE [users EXCEPT ![username] =
            [@ EXCEPT !.email    = updates.email,
                      !.password = updates.password,
                      !.role     = updates.role,
                      !.updated_at = now]]

\* Database.UpdateUser at the instant now: overwrites the non-empty fields
\* of updates and stamps updated_at
DbUpdateUserAt(users, username, updates, now) ==
    IF username \notin DOMAIN users THEN users
    ELSE [users EXCEPT ![username] =
            [@ EXCEPT !.email    = IF updates.email # "" THEN updates.email ELSE @,
                      !.password = IF updates.password # <<>> THEN updates.password ELSE @,
                      !.role     = IF updates.role # "" THEN updates.role ELSE @,
                      !.updated_at = now]]

\* Database.UpdateUser at the instant the requests of a run are served
DbUpdateUser(users, username, updates) == DbUpdateUserAt(users, username, updates, Clock)

\* the error Database.UpdateUser, DeleteUser and DeleteUserWithCascade
\* return ("" for nil)
DbUserErr(users, username) ==
    IF username \in DOMAIN users THEN "" ELSE ErrUserNotFound

\* Database.DeleteUser
DbDeleteUser(users, username) ==
    [n \in DOMAIN users \ {username} |-> users[n]]

\* Database.ListUsers
DbListUsers(users) == Range(users)

\* Database.CreateResource: always succeeds, keyed by id
DbCreateResource(resources, resource) ==
    [i \in DOMAIN resources \cup {resource.id} |->
        IF i = resource.id THEN resource ELSE resources[i]]

\* Database.UpdateResource: overwrites name and description when non-empty,
\* data when not nil
DbUpdateResource(resources, id, updates) ==
    IF id \notin DOMAIN resources THEN resources
    ELSE [resources EXCEPT ![id] =
            [@ EXCEPT !.name        = IF updates.name # "" THEN updates.name ELSE @,
                      !.description = IF updates.description # "" THEN updates.description ELSE @,
                      !.data        = IF ~updates.data.nil THEN updates.data ELSE @]]

\* Database.DeleteResource
DbDeleteResource(resources, id) ==
    [i \in DOMAIN resources \ {id} |-> resources[i]]

\* Database.ListResources
DbListResources(resources) == Range(resources)

\* a gate that never reads as complete
IsSetupComplete_never(setup) == FALSE

\* Database.IsSetupComplete
IsSetupComplete(setup) == setup

\* Database.ListUsersByCreator
ListUsersByCreator(users, creatorID, isSuperAdmin) ==
    {u \in Range(users) : isSuperAdmin \/ u.created_by = creatorID}

\* Database.ListResourcesByCreator
ListResourcesByCreator(resources, creatorID, isSuperAdmin) ==
    {r \in Range(resources) : isSuperAdmin \/ r.created_by = creatorID}

NoResource == Resource(NoID, "", "", NilData, NoID)

\* a GetResourceWithOwnership that tells a hidden resource from a missing one
GetResourceWithOwnership_forbidden(resources, resourceID, requesterID, isSuperAdmin, requesterCreatedBy) ==
    IF resourceID \notin DOMAIN resources
    THEN [found |-> FALSE, resource |-> NoResource, err |-> ErrResourceNotFound]
    ELSE LET resource == resources[resourceID] IN
         IF isSuperAdmin \/ resource.created_by = requesterID
                         \/ resource.created_by = requesterCreatedBy
         THEN [found |-> TRUE, resource |-> resource, err |-> ""]
         ELSE [found |-> FALSE, resource |-> NoResource, err |-> "forbidden"]

\* Database.GetResourceWithOwnership: [found, resource, err]
GetResourceWithOwnership(resources, resourceID, requesterID, isSuperAdmin, requesterCreatedBy) ==
    IF resourceID \notin DOMAIN resources
    THEN [found |-> FALSE, resource |-> NoResource, err |-> ErrResourceNotFound]
    ELSE LET resource == resources[resourceID] IN
         IF isSuperAdmin
         THEN [found |-> TRUE, resource |-> resource, err |-> ""]
         ELSE IF resource.created_by = requesterID
         THEN [found |-> TRUE, resource |-> resource, err |-> ""]
         ELSE IF resource.created_by = requesterCreatedBy
         THEN [found |-> TRUE, resource |-> resource, err |-> ""]
         ELSE [found |-> FALSE, resource |-> NoResource, err |-> ErrResourceNotFound]

\* a cascade that does not look at the role of the deleted user
DeleteUserWithCascade_anyRole(users, resources, username) ==
    IF username \notin DOMAIN users
    THEN [users |-> users, resources |-> resources]
    ELSE LET user == users[username] IN
         [users |-> [n \in {m \in DOMAIN users :
                               m # username /\ users[m].created_by # user.id}
                         |-> users[n]],
          resources |-> [i \in {j \in DOMAIN resources :
                                   resources[j].created_by # user.id}
                             |-> resources[i]]]

\* Database.DeleteUserWithCascade: [users, resources] after the call
DeleteUserWithCascade(users, resources, username) ==
    IF username \notin DOMAIN users
    THEN [users |-> users, resources |-> resources]
    ELSE LET user == users[username] IN
         IF IsAdmin(user)
         THEN [users |-> [n \in {m \in DOMAIN users :
                                   m # username /\ users[m].created_by # user.id}
                             |-> users[n]],
               resources |-> [i \in {j \in DOMAIN resources :
                                       resources[j].created_by # user.id}
                                 |-> resources[i]]]
         ELSE [users |-> DbDeleteUser(users, username), resources |-> resources]

(***************************************************************************)
(* cmd/server/router.go: the route table.  gorilla/mux tries the routes in *)
(* the order they were added and the first route whose path and method     *)
(* match wins.  /setup and /auth/login sit on the v1 router in front of    *)
(* the protected subrouter; the dynamic routes are appended to the         *)
(* protected subrouter after its static routes.                            *)
(***************************************************************************)
StaticRoutes ==
    << [path |-> "/setup",       method |-> "POST", handler |-> "Setup"],
       [path |-> "/auth/login",  method |-> "POST", handler |-> "Login"],
       [path |-> "/auth/me",     method |-> "GET",  handler |-> "GetMe"],
       [path |-> "/users/me",    method |-> "PUT",  handler |-> "UpdateMe"],
       [path |-> "/admin/users", method |-> "POST", handler |-> "CreateUser"],
       [path |-> "/admin/users", method |-> "GET",  handler |-> "ListUsers"],
       [path |-> "/admin/users/{id}", method |-> "PUT",    handler |-> "UpdateUserByAdmin"],
       [path |-> "/admin/users/{id}", method |-> "DELETE", handler |-> "DeleteUser"],
       [path |-> "/resources",   method |-> "POST", handler |-> "CreateResource"],
       [path |-> "/resources",   method |-> "GET",  handler |-> "ListResources"],
       [path |-> "/resources/{id}", method |-> "GET",    handler |-> "GetResource"],
       [path |-> "/resources/{id}", method |-> "PUT",    handler |-> "UpdateResource"],
       [path |-> "/resources/{id}", method |-> "DELETE", handler |-> "DeleteResource"],
       [path |-> "/status",      method |-> "GET",  handler |-> "GetStatus"],
       [path |-> "/health",      method |-> "GET",  handler |-> "GetHealth"] >>

\* indexes of the routes of a table that match a request
Matching(table, method, path) ==
    {i \in 1..Len(table) : table[i].path = path /\ table[i].method = method}

Min(S) == CHOOSE x \in S : \A y \in S : x <= y

\* Router.Match: the handler a request to /v1<path> is dispatched to
Match(rts, method, path) ==
    IF Matching(StaticRoutes, method, path) # {}
    THEN [kind |-> "static", idx |-> Min(Matching(StaticRoutes, method, path))]
    ELSE IF Matching(rts, method, path) # {}
    THEN [kind |-> "dynamic", idx |-> Min(Matching(rts, method, path))]
    ELSE IF \/ \E i \in 1..Len(StaticRoutes) : StaticRoutes[i].path = path
            \/ \E i \in 1..Len(rts) : rts[i].path = path
    THEN [kind |-> "methodNotAllowed", idx |-> 0]
    ELSE [kind |-> "notFound", idx |-> 0]

\* a dynamic route for this path and method has been registered
Registered(rts, method, path) == Matching(rts, method, path) # {}

\* DynamicRouter.AddDynamicEndpoint -> APIHandlers.AddDynamicEndpoint:
\* router.HandleFunc(endpoint, handler).Methods(method) on the protected router
AddDynamicEndpoint(rts, endpoint, method, response) ==
    Append(rts, [path |-> endpoint, method |-> method, response |-> response])

\* DynamicRouter.RemoveDynamicEndpoint: an empty function body
RemoveDynamicEndpoint(rts, endpoint, method) == rts

\* a registration that does not ask for the response key
RegisterFor_noResponseTest(rts, resource) ==
    IF ~resource.data.nil /\ HasString(resource.data, "endpoint")
          /\ HasString(resource.data, "method")
    THEN AddDynamicEndpoint(rts, resource.data.m["endpoint"][2],
                            resource.data.m["method"][2],
                            IF "response" \in DOMAIN resource.data.m
                            THEN resource.data.m["response"][2] ELSE "")
    ELSE rts

\* the route registration the resource handlers perform for a stored resource
RegisterFor(rts, resource) ==
    IF HasEndpointData(resource.data)
    THEN AddDynamicEndpoint(rts, resource.data.m["endpoint"][2],
                            resource.data.m["method"][2],
                            resource.data.m["response"][2])
    ELSE rts

\* APIHandlers.LoadExistingEndpoints: one registration per stored resource
\* that carries endpoint data
RECURSIVE LoadExistingEndpoints(_, _)
LoadExistingEndpoints(rts, rs) ==
    IF rs = {} THEN rts
    ELSE LET r == CHOOSE x \in rs : TRUE IN
         LoadExistingEndpoints(RegisterFor(rts, r), rs \ {r})

(***************************************************************************)
(* Requests.                                                               *)
(***************************************************************************)
\* tokens a client can present that the server did not issue or that have
\* outlived their TTL
ExpiredToken == GenerateTokenAt(SetupID, "root", <<"user", "admin">>, 0, 0, 0)
ForgedToken  ==
    SignedString("HS256", OtherKey,
                 PayloadOf(GenerateToken(SetupID, "root", <<"user", "admin">>)))

BadHeaders ==
    { <<>>, <<"Basic", GarbageToken>>, <<"Bearer", ExpiredToken>>, <<"Bearer", ForgedToken>> }

\* the headers requests are made with: every issued token, and the four
\* bad headers on the routes whose claims are about authentication
GoodHeaders == { <<"Bearer", t>> : t \in tokens }
Headers     == {<<>>} \cup GoodHeaders
AllHeaders  == BadHeaders \cup GoodHeaders

\* ids a client can name in a path
ResourceIDs == {Uuid(n) : n \in 1..nextUuid}

\* ids a client can name in a path
KnownIDs == {SetupID} \cup {Uuid(n) : n \in 1..nextUuid}

\* how many requests are served at once
MaxGoroutines == 2
Goroutines    == 1..MaxGoroutines

\* no goroutine inside a handler or a store call
Idle    == [pc |-> "idle"]
NoCalls == [g \in Goroutines |-> Idle]

\* the goroutine g with its call replaced
Goes(g, call) == [calls EXCEPT ![g] = call]

\* sync.RWMutex with nobody holding it: w is the goroutine holding the write
\* lock (0 for none), r the read locks each goroutine holds, and waiting
\* the goroutines blocked in Lock
Unlocked == [w |-> 0, r |-> [g \in Goroutines |-> 0], waiting |-> {}]

\* no request part-way through a handler, and no panic caught yet
NoRequest == [busy |-> FALSE, hdr |-> <<>>, id |-> NoID, body |-> NoBody, recovered |-> 0]

\* the messages of the answers the Auth and RequireRole middleware give
MiddlewareMessages ==
    {"Authorization header is required", "Invalid authorization header format",
     "Token is required", "Invalid or expired token", "Authentication required",
     "Insufficient permissions"}

\* the record of a served request; arg is what the handler read of the
\* request, nothing when a middleware answered before the handler ran
Served(op, method, path, hdr, arg, resp) ==
    /\ nreq' = nreq + 1
    /\ UNCHANGED <<inflight, calls, mutex>>
    /\ last' = [op |-> op, method |-> method, path |-> path, hdr |-> hdr,
                arg |-> IF resp.msg \in MiddlewareMessages THEN NoBody ELSE arg,
                registered |-> Registered(routes, method, path), resp |-> resp]

\* validation.ValidateJSON on RegisterRequest / LoginRequest
ValidRegister(b) == b.ok /\ b.username # "" /\ b.email # "" /\ b.password # ""
ValidLogin(b)    == b.ok /\ b.username # "" /\ b.password # ""

Init ==
    /\ Users = [n \in {} |-> User(NoID, "", "", <<>>, "", NoID)]
    /\ Resources = [i \in {} |-> NoResource]
    /\ Setup = FALSE
    /\ routes = LoadExistingEndpoints(<<>>, {})
    /\ tokens = {}
    /\ nextUuid = 0
    /\ nreq = 0
    /\ inflight = NoRequest
    /\ calls = NoCalls
    /\ mutex = Unlocked
    /\ last = [op |-> "none", method |-> "", path |-> "", hdr |-> <<>>,
               arg |-> NoBody, registered |-> FALSE, resp |-> Response(0, "", "", NoBody)]

(***************************************************************************)
(* internal/handlers/api_handlers.go                                       *)
(***************************************************************************)
\* the role Setup gives the user it creates
SetupRole == "admin"

\* POST /v1/setup
SetupHandler(b) ==
    LET adminUser == User(SetupID, b.username, b.email, HashPassword(b.password), SetupRole, NoID) IN
    /\ UNCHANGED <<Resources, routes, tokens, nextUuid>>
    /\ IF IsSetupComplete(Setup)
       THEN /\ UNCHANGED <<Users, Setup>>
            /\ Served("Setup", "POST", "/setup", <<>>, b,
                      writeStandardError(StatusBadRequest, "Setup already completed"))
       ELSE IF ~ValidRegister(b)
       THEN /\ UNCHANGED <<Users, Setup>>
            /\ Served("Setup", "POST", "/setup", <<>>, b,
                      writeStandardError(StatusBadRequest, "validation failed"))
       ELSE IF DbUserExists(Users, adminUser.username)
       THEN /\ UNCHANGED <<Users, Setup>>
            /\ Served("Setup", "POST", "/setup", <<>>, b,
                      writeStandardError(StatusInternalServerError, "Failed to create admin user"))
       ELSE /\ Users' = DbCreateUser(Users, adminUser)
            /\ Setup' = TRUE
            /\ Served("Setup", "POST", "/setup", <<>>, b,
                      writeStandardResponse(StatusAccepted, [kind |-> "setup", login_endpoint |-> "/login"]))

SetupBodies ==
    [ok : {TRUE}, username : {"root", ""}, email : {"e1"}, password : {"pw1"}]

SetupReq ==
    /\ nreq < MaxRequests
    /\ \E b \in SetupBodies : SetupHandler(b)

\* the roles Login puts into the token of a user
LoginRoles(user) ==
    IF user.role = "admin" THEN <<"user", "admin">> ELSE <<"user">>

\* POST /v1/auth/login
LoginHandler(b) ==
    /\ UNCHANGED <<Users, Resources, Setup, routes, nextUuid>>
    /\ IF ~ValidLogin(b)
       THEN /\ UNCHANGED tokens
            /\ Served("Login", "POST", "/auth/login", <<>>, b,
                      writeStandardError(StatusBadRequest, "validation failed"))
       ELSE IF ~DbUserExists(Users, b.username)
       THEN /\ UNCHANGED tokens
            /\ Served("Login", "POST", "/auth/login", <<>>, b,
                      writeStandardError(StatusUnauthorized, "Invalid credentials"))
       ELSE IF ~CheckPassword(b.password, Users[b.username].password)
       THEN /\ UNCHANGED tokens
            /\ Served("Login", "POST", "/auth/login", <<>>, b,
                      writeStandardError(StatusUnauthorized, "Invalid credentials"))
       ELSE LET user  == Users[b.username]
                token == GenerateToken(user.id, user.username, LoginRoles(user)) IN
            /\ tokens' = tokens \cup {token}
            /\ Served("Login", "POST", "/auth/login", <<>>, b,
                      writeStandardResponse(StatusCreated, [kind |-> "token", token |-> token]))

LoginBodies == [ok : {TRUE}, username : Usernames, password : Passwords \cup {"wrong"}]

LoginReq ==
    /\ nreq < MaxRequests
    /\ \E b \in LoginBodies : LoginHandler(b)

\* validation of the CreateUser body: all fields required, role oneof admin user
ValidCreateUser(b) ==
    /\ b.ok /\ b.username # "" /\ b.email # "" /\ b.password # ""
    /\ b.role \in {"admin", "user"}

\* validation of the UpdateUserByAdmin body: role omitempty,oneof admin user
ValidUpdateUser(b) == b.ok /\ b.role \in {"", "admin", "user"}

\* the updates the update handlers pass to Database.UpdateUser
UserUpdates(email, password, role) ==
    [email |-> email,
     password |-> IF password # "" THEN HashPassword(password) ELSE <<>>,
     role |-> role]

\* POST /v1/admin/users
CreateUserHandler(hdr, b) ==
    LET chain == AdminChain(hdr)
        user  == User(Uuid(nextUuid + 1), b.username, b.email, HashPassword(b.password), b.role, NoID) IN
    /\ UNCHANGED <<Resources, Setup, routes, tokens>>
    /\ IF ~chain.pass
       THEN /\ UNCHANGED <<Users, nextUuid>>
            /\ Served("CreateUser", "POST", "/admin/users", hdr, b, chain.err)
       ELSE IF ~ValidCreateUser(b)
       THEN /\ UNCHANGED <<Users, nextUuid>>
            /\ Served("CreateUser", "POST", "/admin/users", hdr, b, ValidationError("validation failed"))
       ELSE /\ nextUuid' = nextUuid + 1
            /\ IF DbUserExists(Users, user.username)
               THEN /\ UNCHANGED Users
                    /\ Served("CreateUser", "POST", "/admin/users", hdr, b,
                              BadRequest("Username already exists"))
               ELSE /\ Users' = DbCreateUser(Users, user)
                    /\ Served("CreateUser", "POST", "/admin/users", hdr, b,
                              writeSuccessResponse([kind |-> "user",
                                                    user |-> ToResponse(Stamped(user, Clock, Clock))]))

CreateUserBodies ==
    [ok : {TRUE}, username : {"ann"}, email : {"e1"}, password : {"pw1"},
     role : {"admin", "user", "super_admin"}]
        \cup [ok : {TRUE}, username : {"root", "bob"}, email : {"e1"}, password : {"pw1"},
               role : {"user"}]

CreateUserReq ==
    /\ nreq < MaxRequests
    /\ nextUuid < MaxUuid
    /\ \E hdr \in Headers, b \in CreateUserBodies : CreateUserHandler(hdr, b)

\* GET /v1/admin/users
ListUsersHandler(hdr) ==
    LET chain == AdminChain(hdr) IN
    /\ UNCHANGED <<Users, Resources, Setup, routes, tokens, nextUuid>>
    /\ IF ~chain.pass
       THEN Served("ListUsers", "GET", "/admin/users", hdr, NoBody, chain.err)
       ELSE Served("ListUsers", "GET", "/admin/users", hdr, NoBody,
                   writeSuccessResponse([kind |-> "users",
                                         users |-> {ToResponse(u) : u \in DbListUsers(Users)}]))

ListUsersReq ==
    /\ nreq < MaxRequests
    /\ \E hdr \in AllHeaders : ListUsersHandler(hdr)

\* PUT /v1/admin/users/{id}
UpdateUserByAdminHandler(hdr, userID, b) ==
    LET chain == AdminChain(hdr)
        arg   == [id |-> userID, body |-> b] IN
    /\ UNCHANGED <<Resources, Setup, routes, tokens, nextUuid>>
    /\ IF ~chain.pass
       THEN /\ UNCHANGED Users
            /\ Served("UpdateUserByAdmin", "PUT", "/admin/users/{id}", hdr, arg, chain.err)
       ELSE IF ~ValidUpdateUser(b)
       THEN /\ UNCHANGED Users
            /\ Served("UpdateUserByAdmin", "PUT", "/admin/users/{id}", hdr, arg,
                      ValidationError("validation failed"))
       ELSE IF DbGetUserByID(Users, userID) = {}
       THEN /\ UNCHANGED Users
            /\ Served("UpdateUserByAdmin", "PUT", "/admin/users/{id}", hdr, arg,
                      NotFound("User not found"))
       ELSE \E user \in DbGetUserByID(Users, userID) :
            /\ Users' = DbUpdateUser(Users, user.username, UserUpdates(b.email, b.password, b.role))
            /\ \E updatedUser \in DbGetUserByID(Users', userID) :
                 Served("UpdateUserByAdmin", "PUT", "/admin/users/{id}", hdr, arg,
                        writeSuccessResponse([kind |-> "user", user |-> ToResponse(updatedUser)]))

UpdateUserBodies ==
    [ok : {TRUE}, username : {"zed"}, email : {""}, password : {""},
     role : {"admin", "user"}]
        \cup [ok : {TRUE}, username : {"zed"}, email : {"e2"},
               password : {"", "pw1"}, role : {""}]

UpdateUserByAdminReq ==
    /\ nreq < MaxRequests
    /\ \E hdr \in Headers, id \in KnownIDs, b \in UpdateUserBodies :
          UpdateUserByAdminHandler(hdr, id, b)

\* DELETE /v1/admin/users/{id}
DeleteUserHandler(hdr, userID) ==
    LET chain == AdminChain(hdr)
        arg   == [id |-> userID] IN
    /\ UNCHANGED <<Resources, Setup, routes, tokens, nextUuid>>
    /\ IF ~chain.pass
       THEN /\ UNCHANGED Users
            /\ Served("DeleteUser", "DELETE", "/admin/users/{id}", hdr, arg, chain.err)
       ELSE IF DbGetUserByID(Users, userID) = {}
       THEN /\ UNCHANGED Users
            /\ Served("DeleteUser", "DELETE", "/admin/users/{id}", hdr, arg,
                      NotFound("User not found"))
       ELSE \E user \in DbGetUserByID(Users, userID) :
            /\ Users' = DbDeleteUser(Users, user.username)
            /\ Served("DeleteUser", "DELETE", "/admin/users/{id}", hdr, arg,
                      writeSuccessResponse([kind |-> "deleted", user_id |-> userID]))

DeleteUserReq ==
    /\ nreq < MaxRequests
    /\ \E hdr \in Headers, id \in KnownIDs : DeleteUserHandler(hdr, id)

\* PUT /v1/users/me
UpdateMeHandler(hdr, b) ==
    LET a == Auth(hdr) IN
    /\ UNCHANGED <<Resources, Setup, routes, tokens, nextUuid>>
    /\ IF ~a.pass
       THEN /\ UNCHANGED Users
            /\ Served("UpdateMe", "PUT", "/users/me", hdr, b, a.err)
       ELSE IF ~b.ok
       THEN /\ UNCHANGED Users
            /\ Served("UpdateMe", "PUT", "/users/me", hdr, b, BadRequest("Invalid JSON"))
       ELSE IF DbGetUserByID(Users, a.claims.user_id) = {}
       THEN /\ UNCHANGED Users
            /\ Served("UpdateMe", "PUT", "/users/me", hdr, b, NotFound("User not found"))
       ELSE \E user \in DbGetUserByID(Users, a.claims.user_id) :
            /\ Users' = DbUpdateUser(Users, user.username, UserUpdates(b.email, b.password, ""))
            /\ \E updatedUser \in DbGetUserByID(Users', a.claims.user_id) :
                 Served("UpdateMe", "PUT", "/users/me", hdr, b,
                        writeSuccessResponse([kind |-> "user", user |-> ToResponse(updatedUser)]))

UpdateMeBodies == [ok : {TRUE}, email : {"e2"}, password : {"", "pw1"}]

UpdateMeReq ==
    /\ nreq < MaxRequests
    /\ \E hdr \in Headers, b \in UpdateMeBodies : UpdateMeHandler(hdr, b)

\* a permission test that lets every caller through
MayModify_anyone(claims, resource) == TRUE

\* the permission test of the resource update and delete handlers:
\* resource.CreatedBy != claims.UserID && !claims.HasRole("admin") is refused
MayModify(claims, resource) ==
    ~(resource.created_by # claims.user_id /\ ~HasRole(claims, "admin"))

\* POST /v1/resources (CreateResourceWithDynamicEndpoint)
CreateResourceHandler(hdr, b) ==
    LET a        == Auth(hdr)
        resource == Resource(Uuid(nextUuid + 1), b.name, b.description, b.data, a.claims.user_id) IN
    /\ UNCHANGED <<Users, Setup, tokens>>
    /\ IF ~a.pass
       THEN /\ UNCHANGED <<Resources, routes, nextUuid>>
            /\ Served("CreateResource", "POST", "/resources", hdr, b, a.err)
       ELSE IF ~(b.ok /\ b.name # "")
       THEN /\ UNCHANGED <<Resources, routes, nextUuid>>
            /\ Served("CreateResource", "POST", "/resources", hdr, b,
                      ValidationError("validation failed"))
       ELSE /\ nextUuid' = nextUuid + 1
            /\ Resources' = DbCreateResource(Resources, resource)
            /\ routes' = RegisterFor(routes, resource)
            /\ Served("CreateResource", "POST", "/resources", hdr, b,
                      writeSuccessResponse([kind |-> "resource", resource |-> resource]))

DataValues ==
    {NilData, PlainData("resp1")}
        \cup {EndpointData("/x", "GET", r) : r \in Responses}
        \cup {EndpointData("/setup", "POST", "resp1")}

CreateResourceBodies == [ok : {TRUE}, name : {"n1"}, description : {""}, data : DataValues]

CreateResourceReq ==
    /\ nreq < MaxRequests
    /\ nextUuid < MaxUuid
    /\ \E hdr \in Headers, b \in CreateResourceBodies : CreateResourceHandler(hdr, b)
    /\ Len(routes') <= MaxRoutes

\* GET /v1/resources
ListResourcesHandler(hdr) ==
    LET a == Auth(hdr) IN
    /\ UNCHANGED <<Users, Resources, Setup, routes, tokens, nextUuid>>
    /\ IF ~a.pass
       THEN Served("ListResources", "GET", "/resources", hdr, NoBody, a.err)
       ELSE Served("ListResources", "GET", "/resources", hdr, NoBody,
                   writeSuccessResponse([kind |-> "resources",
                                         resources |-> DbListResources(Resources)]))

ListResourcesReq ==
    /\ nreq < MaxRequests
    /\ \E hdr \in Headers : ListResourcesHandler(hdr)

\* GET /v1/resources/{id}
GetResourceHandler(hdr, resourceID) ==
    LET a   == Auth(hdr)
        arg == [id |-> resourceID] IN
    /\ UNCHANGED <<Users, Resources, Setup, routes, tokens, nextUuid>>
    /\ IF ~a.pass
       THEN Served("GetResource", "GET", "/resources/{id}", hdr, arg, a.err)
       ELSE IF resourceID \notin DOMAIN Resources
       THEN Served("GetResource", "GET", "/resources/{id}", hdr, arg,
                   NotFound("Resource not found"))
       ELSE Served("GetResource", "GET", "/resources/{id}", hdr, arg,
                   writeSuccessResponse([kind |-> "resource", resource |-> Resources[resourceID]]))

GetResourceReq ==
    /\ nreq < MaxRequests
    /\ \E hdr \in Headers, id \in ResourceIDs : GetResourceHandler(hdr, id)

\* PUT /v1/resources/{id} (UpdateResourceWithDynamicEndpoint)
UpdateResourceHandler(hdr, resourceID, b) ==
    LET a   == Auth(hdr)
        arg == [id |-> resourceID, body |-> b] IN
    /\ UNCHANGED <<Users, Setup, tokens, nextUuid>>
    /\ IF ~a.pass
       THEN /\ UNCHANGED <<Resources, routes>>
            /\ Served("UpdateResource", "PUT", "/resources/{id}", hdr, arg, a.err)
       ELSE IF ~b.ok
       THEN /\ UNCHANGED <<Resources, routes>>
            /\ Served("UpdateResource", "PUT", "/resources/{id}", hdr, arg,
                      BadRequest("Invalid JSON"))
       ELSE IF resourceID \notin DOMAIN Resources
       THEN /\ UNCHANGED <<Resources, routes>>
            /\ Served("UpdateResource", "PUT", "/resources/{id}", hdr, arg,
                      NotFound("Resource not found"))
       ELSE IF ~MayModify(a.claims, Resources[resourceID])
       THEN /\ UNCHANGED <<Resources, routes>>
            /\ Served("UpdateResource", "PUT", "/resources/{id}", hdr, arg,
                      Forbidden("You can only update your own resources"))
       ELSE /\ Resources' = DbUpdateResource(Resources, resourceID,
                                [name |-> b.name, description |-> b.description, data |-> b.data])
            /\ routes' = RegisterFor(routes, Resources'[resourceID])
            /\ Served("UpdateResource", "PUT", "/resources/{id}", hdr, arg,
                      writeSuccessResponse([kind |-> "resource", resource |-> Resources'[resourceID]]))

UpdateResourceBodies ==
    [ok : {TRUE}, name : {""}, description : {""}, data : DataValues \ {NilData}]
        \cup [ok : {TRUE}, name : {"n2"}, description : {"d2"}, data : {NilData}]
        \cup [ok : {FALSE}, name : {""}, description : {""}, data : {NilData}]

UpdateResourceReq ==
    /\ nreq < MaxRequests
    /\ \E hdr \in Headers, id \in ResourceIDs, b \in UpdateResourceBodies :
          UpdateResourceHandler(hdr, id, b)
    /\ Len(routes') <= MaxRoutes

\* DELETE /v1/resources/{id} (DeleteResourceWithDynamicEndpoint)
DeleteResourceHandler(hdr, resourceID) ==
    LET a   == Auth(hdr)
        arg == [id |-> resourceID] IN
    /\ UNCHANGED <<Users, Setup, tokens, nextUuid>>
    /\ IF ~a.pass
       THEN /\ UNCHANGED <<Resources, routes>>
            /\ Served("DeleteResource", "DELETE", "/resources/{id}", hdr, arg, a.err)
       ELSE IF resourceID \notin DOMAIN Resources
       THEN /\ UNCHANGED <<Resources, routes>>
            /\ Served("DeleteResource", "DELETE", "/resources/{id}", hdr, arg,
                      NotFound("Resource not found"))
       ELSE IF ~MayModify(a.claims, Resources[resourceID])
       THEN /\ UNCHANGED <<Resources, routes>>
            /\ Served("DeleteResource", "DELETE", "/resources/{id}", hdr, arg,
                      Forbidden("You can only delete your own resources"))
       ELSE LET resource == Resources[resourceID] IN
            /\ routes' = IF ~resource.data.nil /\ HasString(resource.data, "endpoint")
                            /\ HasString(resource.data, "method")
                         THEN RemoveDynamicEndpoint(routes, resource.data.m["endpoint"][2],
                                                    resource.data.m["method"][2])
                         ELSE routes
            /\ Resources' = DbDeleteResource(Resources, resourceID)
            /\ Served("DeleteResource", "DELETE", "/resources/{id}", hdr, arg,
                      writeSuccessResponse([kind |-> "deleted", resource_id |-> resourceID]))

DeleteResourceReq ==
    /\ nreq < MaxRequests
    /\ \E hdr \in Headers, id \in ResourceIDs : DeleteResourceHandler(hdr, id)

\* the handler AddDynamicEndpoint builds for a route: the canned response
\* with the claims of the caller, read from the request context
DynamicResponse(route, claims) ==
    Response(StatusOK, "", "",
             [kind |-> "dynamic", response |-> route.response,
              endpoint |-> route.path, method |-> route.method,
              user |-> claims.username, user_id |-> claims.user_id])

\* {METHOD} /v1<path> dispatched to a dynamic route of the protected subrouter
DynamicHandler(method, path, hdr) ==
    LET m == Match(routes, method, path)
        a == Auth(hdr) IN
    /\ m.kind = "dynamic"
    /\ UNCHANGED <<Users, Resources, Setup, routes, tokens, nextUuid>>
    /\ IF ~a.pass
       THEN Served("Dynamic", method, path, hdr, NoBody, a.err)
       ELSE Served("Dynamic", method, path, hdr, NoBody, DynamicResponse(routes[m.idx], a.claims))

DynamicReq ==
    /\ nreq < MaxRequests
    /\ \E method \in Methods, path \in Paths, hdr \in AllHeaders : DynamicHandler(method, path, hdr)

\* a request no route matches: mux answers before any middleware of the
\* protected subrouter runs
NoRouteHandler(method, path, hdr) ==
    LET m == Match(routes, method, path) IN
    /\ m.kind \in {"notFound", "methodNotAllowed"}
    /\ UNCHANGED <<Users, Resources, Setup, routes, tokens, nextUuid>>
    /\ IF m.kind = "notFound"
       THEN Served("NoRoute", method, path, hdr, NoBody,
                   Response(StatusNotFound, "ENDPOINT_NOT_FOUND",
                            "The requested endpoint was not found", NoBody))
       ELSE Served("NoRoute", method, path, hdr, NoBody,
                   Response(StatusMethodNotAllowed, "", "", NoBody))

NoRouteReq ==
    /\ nreq < MaxRequests
    /\ \E method \in Methods, path \in Paths, hdr \in {<<>>} : NoRouteHandler(method, path, hdr)

Next ==
    \/ SetupReq
    \/ LoginReq
    \/ CreateUserReq
    \/ ListUsersReq
    \/ UpdateUserByAdminReq
    \/ DeleteUserReq
    \/ UpdateMeReq
    \/ CreateResourceReq
    \/ ListResourcesReq
    \/ GetResourceReq
    \/ UpdateResourceReq
    \/ DeleteResourceReq
    \/ DynamicReq
    \/ NoRouteReq

Spec == Init /\ [][Next]_vars

(***************************************************************************)
(* The store and middleware functions no handler calls, applied directly:  *)
(* the store is drawn from the stores a run of the server can leave, and   *)
(* each action applies one function and records its arguments and result.  *)
(***************************************************************************)
\* the user Setup creates, and the tokens Login has issued
FnRoot == User(SetupID, "root", "e1", HashPassword("pw1"), SetupRole, NoID)

FnTokens ==
    { GenerateToken(SetupID, "root", LoginRoles(FnRoot)),
      GenerateToken(Uuid(MaxStored + 1), "bob", <<"user">>) }

\* ids of stored resources, and the ids that own or request them
FnResourceIDs == {Uuid(n) : n \in 1..MaxStored}
FnOwners      == {SetupID, Uuid(MaxStored + 1)}
FnRequesters  == FnOwners \cup {Uuid(MaxStored + 2)}

\* the stores holding any of the resources, each owned by any of the owners
FnStores ==
    UNION { { [i \in D |-> Resource(i, "n1", "", NilData, o[i])] : o \in [D -> FnOwners] }
            : D \in SUBSET FnResourceIDs }

FnRoleLists == {<<"admin">>, <<"user">>, <<"admin", "super_admin">>}

FnClaims ==
    { [user_id |-> SetupID, username |-> "root", roles |-> r] :
        r \in {<<>>, <<"user">>, <<"user", "admin">>} }

InitFn ==
    /\ Users = DbCreateUser([n \in {} |-> FnRoot], FnRoot)
    /\ Resources \in FnStores
    /\ Setup = TRUE
    /\ routes = <<>>
    /\ tokens = FnTokens
    /\ nextUuid = MaxStored + 1
    /\ nreq = 0
    /\ inflight = NoRequest
    /\ calls = NoCalls
    /\ mutex = Unlocked
    /\ last = [op |-> "none", method |-> "", path |-> "", hdr |-> <<>>,
               arg |-> NoBody, registered |-> FALSE, resp |-> Response(0, "", "", NoBody)]

\* the record of a function applied: its arguments and its result
Applied(op, arg, result) == [op |-> op, arg |-> arg, result |-> result]

FnListResourcesByCreator ==
    /\ \E creatorID \in FnRequesters, isSuperAdmin \in BOOLEAN :
          last' = Applied("ListResourcesByCreator",
                          [creatorID |-> creatorID, isSuperAdmin |-> isSuperAdmin],
                          ListResourcesByCreator(Resources, creatorID, isSuperAdmin))
    /\ UNCHANGED <<Users, Resources, Setup, routes, tokens, nextUuid, nreq, inflight,
                   calls, mutex>>

FnGetResourceWithOwnership ==
    /\ \E resourceID \in FnResourceIDs, requesterID \in FnRequesters,
          isSuperAdmin \in BOOLEAN, requesterCreatedBy \in FnOwners \cup {NoID} :
          last' = Applied("GetResourceWithOwnership",
                          [resourceID |-> resourceID, requesterID |-> requesterID,
                           isSuperAdmin |-> isSuperAdmin,
                           requesterCreatedBy |-> requesterCreatedBy],
                          GetResourceWithOwnership(Resources, resourceID, requesterID,
                                                   isSuperAdmin, requesterCreatedBy))
    /\ UNCHANGED <<Users, Resources, Setup, routes, tokens, nextUuid, nreq, inflight,
                   calls, mutex>>

FnRequireRole ==
    /\ \E roles \in FnRoleLists, hasClaims \in BOOLEAN, claims \in FnClaims :
          LET c == IF hasClaims THEN claims ELSE NoClaims IN
          last' = Applied("RequireRole",
                          [roles |-> roles, hasClaims |-> hasClaims, claims |-> c],
                          RequireRole(roles, hasClaims, c))
    /\ UNCHANGED <<Users, Resources, Setup, routes, tokens, nextUuid, nreq, inflight,
                   calls, mutex>>

\* the users Login may find in the store: one of each role of the User model
FnUsers ==
    { User(Uuid(MaxStored + 1), "ann", "e1", HashPassword("pw1"), role, SetupID) :
        role \in {"user", "admin", "super_admin"} } \cup {FnRoot}

\* the token Login issues for a user it found and whose password matched
FnLoginToken ==
    /\ \E user \in FnUsers :
          last' = Applied("LoginToken", [user |-> user],
                          GenerateToken(user.id, user.username, LoginRoles(user)))
    /\ UNCHANGED <<Users, Resources, Setup, routes, tokens, nextUuid, nreq, inflight,
                   calls, mutex>>

\* the instants of the first clock read of GenerateToken: every offset
\* within one second
FnIssueInstants == { 5 * TicksPerSecond + k : k \in 0 .. (TicksPerSecond - 1) }

\* the role lists a token is issued with, order included
FnTokenRoles == {<<"user", "admin">>, <<"admin", "user">>}

\* what reaches ValidateToken in place of the token GenerateToken issued:
\* the token itself, the same claims signed with another secret, the token
\* with its payload altered and its signature kept, the same claims under a
\* signing method that is not an HMAC method, and the same claims signed
\* with the server secret under another HMAC method
FnPresented(kind, tok) ==
    CASE kind = "issued"       -> tok
      [] kind = "other-secret" -> SignedString("HS256", OtherKey, PayloadOf(tok))
      [] kind = "altered"      -> [tok EXCEPT !.roles = Append(tok.roles, "super_admin")]
      [] kind = "not-hmac"     -> SignedString("RS256", JWTSecret, PayloadOf(tok))
      [] OTHER                 -> SignedString("HS512", JWTSecret, PayloadOf(tok))

FnKinds == {"issued", "other-secret", "altered", "not-hmac", "hmac-512"}

\* the instants a token is validated at: right after the last clock read of
\* GenerateToken, and around its expiry
FnValidateInstants(tok, t1, t3) ==
    { t3,
      tok.exp * TicksPerSecond - 1,
      tok.exp * TicksPerSecond,
      t1 + JWTExpiration * TicksPerSecond,
      t1 + JWTExpiration * TicksPerSecond + 1 }

\* GenerateToken, its three clock reads t1 <= t2 <= t3 apart by some ticks
FnGenerateToken ==
    /\ \E userID \in {SetupID, Uuid(1)}, roles \in FnTokenRoles,
          t1 \in FnIssueInstants, d2 \in 0 .. MaxDelay, d3 \in 0 .. MaxDelay :
          LET username == IF userID = SetupID THEN "root" ELSE "ann"
          IN  last' = Applied("GenerateToken",
                              [userID |-> userID, username |-> username,
                               roles |-> roles,
                               t1 |-> t1, t2 |-> t1 + d2, t3 |-> t1 + d2 + d3],
                              GenerateTokenAt(userID, username, roles,
                                              t1, t1 + d2, t1 + d2 + d3))
    /\ UNCHANGED <<Users, Resources, Setup, routes, tokens, nextUuid, nreq, inflight,
                   calls, mutex>>

\* ValidateToken of what is presented for the token just issued
FnValidateToken ==
    /\ last.op = "GenerateToken"
    /\ \E kind \in FnKinds,
          now \in FnValidateInstants(last.result, last.arg.t1, last.arg.t3) :
          LET presented == FnPresented(kind, last.result)
          IN  last' = Applied("ValidateToken",
                              [userID |-> last.arg.userID,
                               username |-> last.arg.username,
                               roles |-> last.arg.roles, kind |-> kind,
                               t1 |-> last.arg.t1, t2 |-> last.arg.t2,
                               t3 |-> last.arg.t3,
                               token |-> last.result, now |-> now],
                              [ok |-> ValidateTokenAt(presented, now),
                               claims |-> IF ValidateTokenAt(presented, now)
                                          THEN ClaimsOf(presented)
                                          ELSE NoClaims])
    /\ UNCHANGED <<Users, Resources, Setup, routes, tokens, nextUuid, nreq, inflight,
                   calls, mutex>>

\* the tokens Auth validates: one that is not a JWT, one signed with another
\* secret, one altered after signing, one under a signing method that is not
\* an HMAC method, one that has expired, one whose nbf is still ahead (issued
\* by a server whose clock is ahead), and one in force
FnAuthToken(kind) ==
    LET tok == GenerateToken(SetupID, "root", <<"user", "admin">>) IN
    CASE kind = "malformed"     -> GarbageToken
      [] kind = "bad-signature" -> ForgedToken
      [] kind = "altered"       -> FnPresented("altered", tok)
      [] kind = "wrong-alg"     -> FnPresented("not-hmac", tok)
      [] kind = "expired"       -> ExpiredToken
      [] kind = "not-yet-valid" ->
             GenerateTokenAt(SetupID, "root", <<"user", "admin">>,
                             Clock + TicksPerSecond, Clock + TicksPerSecond,
                             Clock + TicksPerSecond)
      [] OTHER                  -> tok

FnAuthFailures ==
    {"malformed", "bad-signature", "altered", "wrong-alg", "expired", "not-yet-valid"}

\* the Auth middleware on a request with a bearer token
FnAuth ==
    /\ \E kind \in FnAuthFailures \cup {"valid"}, scheme \in {"Bearer", "bearer"} :
          last' = Applied("Auth", [kind |-> kind, hdr |-> <<scheme, FnAuthToken(kind)>>],
                          Auth(<<scheme, FnAuthToken(kind)>>))
    /\ UNCHANGED <<Users, Resources, Setup, routes, tokens, nextUuid, nreq, inflight,
                   calls, mutex>>

\* the Authorization headers ExtractBearerToken is applied to, as their
\* parts between single spaces: the empty header, one part, two parts under
\* several schemes and spellings of Bearer, and three parts
FnHeaders ==
    LET tok == GenerateToken(SetupID, "root", <<"user", "admin">>) IN
    {<<>>, <<"Bearer">>, <<"InvalidFormat">>,
     <<"Bearer", tok, tok>>, <<"Bearer", EmptyToken, tok>>}
    \cup { <<scheme, t>> :
             scheme \in {"Bearer", "bearer", "BEARER", "Basic"},
             t \in {tok, GarbageToken, EmptyToken, BlankToken, Padded(tok)} }

\* ExtractBearerToken on a header
FnExtractBearerToken ==
    /\ \E hdr \in FnHeaders :
          last' = Applied("ExtractBearerToken", [hdr |-> hdr], ExtractBearerToken(hdr))
    /\ UNCHANGED <<Users, Resources, Setup, routes, tokens, nextUuid, nreq, inflight,
                   calls, mutex>>

\* a password one byte longer than bcrypt takes, ending in c
LongPassword(c) == Append([i \in 1 .. MaxBcryptBytes |-> "a"], c)

\* the passwords that are hashed and checked, as their bytes: short ones,
\* one of exactly MaxBcryptBytes, and two longer ones that differ in the
\* last byte only
FnPasswords ==
    {<<"a", "b", "c">>, <<"a", "b", "d">>, [i \in 1 .. MaxBcryptBytes |-> "a"],
     LongPassword("a"), LongPassword("b")}

\* HashPassword of a password followed by CheckPassword of another
FnCheckPassword ==
    /\ \E p \in FnPasswords, q \in FnPasswords, rejectsLong \in BOOLEAN :
          LET h == HashPasswordIn(p, rejectsLong)
          IN  last' = Applied("CheckPassword",
                              [p |-> p, q |-> q, rejectsLong |-> rejectsLong],
                              [ok |-> h.ok, hash |-> h.hash,
                               match |-> CheckPassword(q, h.hash)])
    /\ UNCHANGED <<Users, Resources, Setup, routes, tokens, nextUuid, nreq, inflight,
                   calls, mutex>>

NextFn ==
    \/ FnListResourcesByCreator
    \/ FnGetResourceWithOwnership
    \/ FnRequireRole
    \/ FnLoginToken
    \/ ListUsersReq

SpecFn == InitFn /\ [][NextFn]_vars

(***************************************************************************)
(* The user operations of the Database applied in a row to drawn stores,   *)
(* and the admin route that updates a user.                                *)
(***************************************************************************)
StHash  == HashPassword("pw1")
StHash2 == HashPassword("pw2")

\* the id that goes with a username
StID(username) ==
    CASE username = "root" -> SetupID
      [] username = "ann"  -> Uuid(MaxStored + 1)
      [] OTHER             -> Uuid(MaxStored + 2)

\* the users of the drawn stores: the super-admin, ann created by the
\* super-admin, bob created by either
StRoot       == User(SetupID, "root", "e1", StHash, "super_admin", NoID)
StAnn(role)  == User(StID("ann"), "ann", "e1", StHash, role, SetupID)
StBob(cb)    == User(StID("bob"), "bob", "e1", StHash, "user", cb)

\* the user stores drawn: built with Database.CreateUser
StUserStores ==
    LET s0 == DbCreateUser([n \in {} |-> StRoot], StRoot) IN
    {s0}
    \cup { DbCreateUser(s0, StAnn(r)) : r \in {"admin", "user"} }
    \cup { DbCreateUser(DbCreateUser(s0, StAnn(r)), StBob(cb)) :
             r \in {"admin", "user"}, cb \in {SetupID, StID("ann")} }

InitStore ==
    /\ Users \in StUserStores
    /\ Resources \in FnStores
    /\ Setup = TRUE
    /\ routes = <<>>
    /\ tokens = {GenerateToken(StID("ann"), "ann", <<"user", "admin">>)}
    /\ nextUuid = MaxStored + 2
    /\ nreq = 0
    /\ inflight = NoRequest
    /\ calls = NoCalls
    /\ mutex = Unlocked
    /\ last = [op |-> "none", method |-> "", path |-> "", hdr |-> <<>>,
               arg |-> NoBody, registered |-> FALSE, resp |-> Response(0, "", "", NoBody)]

\* one store of those: the super-admin, the admin ann and the user bob whom
\* ann created, and one resource of ann
InitTenant ==
    /\ InitStore
    /\ DOMAIN Users = {"root", "ann", "bob"}
    /\ Users["ann"].role = "admin"
    /\ Users["bob"].created_by = StID("ann")
    /\ DOMAIN Resources = {Uuid(1)}
    /\ Resources[Uuid(1)].created_by = StID("ann")

\* the instant of the next store operation: each one later than the last
StNow == Clock + (nreq + 1) * (MaxDelay + 1)

StUsernames == {"root", "ann", "bob", "zed"}

\* Database.CreateUser, then GetUser and GetUserByID of the user
StCreateUser ==
    /\ nreq < MaxStoreOps
    /\ \E username \in {"ann", "bob"}, role \in {"user", "admin"}, d \in 0 .. MaxDelay :
          LET user == User(StID(username), username, "e2", StHash2, role, SetupID)
          IN  /\ Users' = DbCreateUserAt(Users, user, StNow, StNow + d)
              /\ last' = Applied("CreateUser", [user |-> user],
                                 [err |-> DbCreateUserErr(Users, user),
                                  got |-> DbGetUser(Users', username),
                                  gotByID |-> DbGetUserByID(Users', user.id)])
    /\ nreq' = nreq + 1
    /\ UNCHANGED <<inflight, calls, mutex>>
    /\ UNCHANGED <<Resources, Setup, routes, tokens, nextUuid>>

\* Database.UpdateUser
StUpdateUser ==
    /\ nreq < MaxStoreOps
    /\ \E username \in StUsernames, email \in {"", "e2"}, password \in {<<>>, StHash2},
          role \in {"", "admin"} :
          LET updates == [email |-> email, password |-> password, role |-> role]
          IN  /\ Users' = DbUpdateUserAt(Users, username, updates, StNow)
              /\ last' = Applied("UpdateUser",
                                 [username |-> username, updates |-> updates,
                                  now |-> StNow],
                                 [err |-> DbUserErr(Users, username)])
    /\ nreq' = nreq + 1
    /\ UNCHANGED <<inflight, calls, mutex>>
    /\ UNCHANGED <<Resources, Setup, routes, tokens, nextUuid>>

\* Database.DeleteUser
StDeleteUser ==
    /\ nreq < MaxStoreOps
    /\ \E username \in StUsernames :
          /\ Users' = DbDeleteUser(Users, username)
          /\ last' = Applied("DeleteUser", [username |-> username],
                             [err |-> DbUserErr(Users, username)])
    /\ nreq' = nreq + 1
    /\ UNCHANGED <<inflight, calls, mutex>>
    /\ UNCHANGED <<Resources, Setup, routes, tokens, nextUuid>>

\* Database.DeleteUserWithCascade
StDeleteUserWithCascade ==
    /\ nreq < MaxStoreOps
    /\ \E username \in StUsernames :
          LET after == DeleteUserWithCascade(Users, Resources, username)
          IN  /\ Users' = after.users
              /\ Resources' = after.resources
              /\ last' = Applied("DeleteUserWithCascade", [username |-> username],
                                 [err |-> DbUserErr(Users, username)])
    /\ nreq' = nreq + 1
    /\ UNCHANGED <<inflight, calls, mutex>>
    /\ UNCHANGED <<Setup, routes, tokens, nextUuid>>

\* PUT /v1/admin/users/{id} among the store operations
StUpdateUserByAdmin ==
    /\ nreq < MaxStoreOps
    /\ \E hdr \in Headers, username \in {"ann", "bob"}, b \in UpdateUserBodies :
          UpdateUserByAdminHandler(hdr, StID(username), b)

NextStore ==
    \/ StCreateUser
    \/ StUpdateUser
    \/ StDeleteUser
    \/ StDeleteUserWithCascade
    \/ StUpdateUserByAdmin

SpecStore == InitStore /\ [][NextStore]_vars

(***************************************************************************)
(* Two requests at once: PUT /v1/admin/users/{id}, whose handler takes the *)
(* lock of the Database once per call, with DELETE /v1/admin/users/{id}    *)
(* served between two of its calls.  The Recovery middleware is around     *)
(* every handler.                                                          *)
(***************************************************************************)
\* what a handler does with a request: it returns having written resp, or
\* it panics with a value, having written resp so far (NoBody for nothing)
Returned(resp)        == [panicked |-> FALSE, value |-> "", resp |-> resp]
Panicked(value, resp) == [panicked |-> TRUE, value |-> value, resp |-> resp]

\* a Recovery that answers with the value of the panic
Recovery_tellsValue(outcome) ==
    IF ~outcome.panicked THEN outcome.resp
    ELSE InternalServerError(outcome.value)

\* Recovery: the response the client gets.  A recovered panic is logged with
\* its value and stack and answered with writeErrorResponse, which sets the
\* status only if the handler has written nothing yet
Recovery(outcome) ==
    IF ~outcome.panicked THEN outcome.resp
    ELSE IF outcome.resp # NoBody THEN outcome.resp
    ELSE InternalServerError("Internal server error")

\* UpdateUserByAdmin up to and including Database.UpdateUser
RcUpdateUserBegin ==
    /\ nreq < MaxInFlightOps
    /\ ~inflight.busy
    /\ \E hdr \in GoodHeaders, username \in {"ann", "bob"}, b \in UpdateUserBodies :
          LET userID == StID(username)
              chain  == AdminChain(hdr)
          IN  IF ~chain.pass \/ ~ValidUpdateUser(b) \/ DbGetUserByID(Users, userID) = {}
              THEN UpdateUserByAdminHandler(hdr, userID, b)
              ELSE /\ \E user \in DbGetUserByID(Users, userID) :
                        Users' = DbUpdateUser(Users, user.username,
                                              UserUpdates(b.email, b.password, b.role))
                   /\ inflight' = [inflight EXCEPT !.busy = TRUE, !.hdr = hdr,
                                                   !.id = userID, !.body = b]
                   /\ nreq' = nreq + 1
                   /\ UNCHANGED <<Resources, Setup, routes, tokens, nextUuid, last,
                                  calls, mutex>>

\* UpdateUserByAdmin from its second Database.GetUserByID on: the error of
\* the call is dropped, and with no user found the handler dereferences a
\* nil pointer at the log line, before it has written anything
RcUpdateUserEnd ==
    /\ inflight.busy
    /\ LET found   == DbGetUserByID(Users, inflight.id)
           outcome == IF found = {}
                      THEN {Panicked("invalid memory address or nil pointer dereference",
                                     NoBody)}
                      ELSE {Returned(writeSuccessResponse(
                                       [kind |-> "user", user |-> ToResponse(u)])) :
                              u \in found}
       IN  \E o \in outcome :
             /\ last' = [op |-> "UpdateUserByAdmin", method |-> "PUT",
                         path |-> "/admin/users/{id}", hdr |-> inflight.hdr,
                         arg |-> [id |-> inflight.id, body |-> inflight.body],
                         registered |-> FALSE, resp |-> Recovery(o)]
             /\ inflight' = [NoRequest EXCEPT !.recovered =
                                inflight.recovered + (IF o.panicked THEN 1 ELSE 0)]
    /\ UNCHANGED <<Users, Resources, Setup, routes, tokens, nextUuid, nreq,
                   calls, mutex>>

\* DELETE /v1/admin/users/{id}
RcDeleteUser ==
    /\ nreq < MaxInFlightOps
    /\ \E hdr \in GoodHeaders, username \in {"ann", "bob"} :
          DeleteUserHandler(hdr, StID(username))

NextRace ==
    \/ RcUpdateUserBegin
    \/ RcUpdateUserEnd
    \/ RcDeleteUser

SpecRace == InitStore /\ [][NextRace]_vars

(***************************************************************************)
(* Requests served at once, each in its own goroutine.  A handler holds    *)
(* the lock of the Database only inside a call of the Database, so the     *)
(* calls of two handlers interleave: one step per call.                    *)
(***************************************************************************)
\* how many requests are started in a run of concurrent Setup requests
MaxSetupOps == 4

\* the payloads of concurrent Setup requests: all valid
SuBodies ==
    [ok : {TRUE}, username : {"root", "ann"}, email : {"e1"}, password : {"pw1"}]

\* Setup up to Database.CreateUser: the test of the gate under the read
\* lock, the validation of the body and the hash of the password
SuIsSetupComplete ==
    /\ nreq < MaxSetupOps
    /\ \E g \in Goroutines, b \in SuBodies :
          /\ calls[g].pc \in {"idle", "done"}
          /\ nreq' = nreq + 1
          /\ IF IsSetupComplete(Setup)
             THEN /\ calls' = Goes(g, [pc |-> "done", op |-> "Setup", body |-> b,
                           resp |-> writeStandardError(StatusBadRequest,
                                                       "Setup already completed")])
                  /\ last' = [op |-> "Setup", method |-> "POST", path |-> "/setup",
                              hdr |-> <<>>, arg |-> b, registered |-> FALSE,
                              resp |-> writeStandardError(StatusBadRequest,
                                                          "Setup already completed")]
             ELSE /\ calls' = Goes(g, [pc |-> "CreateUser", op |-> "Setup", body |-> b,
                                       resp |-> NoBody])
                  /\ UNCHANGED last
    /\ UNCHANGED <<Users, Resources, Setup, routes, tokens, nextUuid, inflight, mutex>>

\* Setup at Database.CreateUser, under the write lock: a taken username
\* ends the request
SuCreateUser ==
    /\ \E g \in Goroutines :
          /\ calls[g].pc = "CreateUser"
          /\ LET b         == calls[g].body
                 adminUser == User(SetupID, b.username, b.email,
                                   HashPassword(b.password), SetupRole, NoID)
                 failed    == writeStandardError(StatusInternalServerError,
                                                 "Failed to create admin user")
             IN  IF DbCreateUserErr(Users, adminUser) # ""
                 THEN /\ calls' = Goes(g, [calls[g] EXCEPT !.pc = "done", !.resp = failed])
                      /\ last' = [op |-> "Setup", method |-> "POST", path |-> "/setup",
                                  hdr |-> <<>>, arg |-> b, registered |-> FALSE,
                                  resp |-> failed]
                      /\ UNCHANGED Users
                 ELSE /\ Users' = DbCreateUser(Users, adminUser)
                      /\ calls' = Goes(g, [calls[g] EXCEPT !.pc = "CompleteSetup"])
                      /\ UNCHANGED last
    /\ UNCHANGED <<Resources, Setup, routes, tokens, nextUuid, nreq, inflight, mutex>>

\* Setup from Database.CompleteSetup on, under the write lock, and the answer
SuCompleteSetup ==
    /\ \E g \in Goroutines :
          /\ calls[g].pc = "CompleteSetup"
          /\ LET accepted == writeStandardResponse(StatusAccepted,
                                 [kind |-> "setup", login_endpoint |-> "/login"])
             IN  /\ Setup' = TRUE
                 /\ calls' = Goes(g, [calls[g] EXCEPT !.pc = "done", !.resp = accepted])
                 /\ last' = [op |-> "Setup", method |-> "POST", path |-> "/setup",
                             hdr |-> <<>>, arg |-> calls[g].body, registered |-> FALSE,
                             resp |-> accepted]
    /\ UNCHANGED <<Users, Resources, routes, tokens, nextUuid, nreq, inflight, mutex>>

\* POST /v1/auth/login, in one step: it makes one call of the Database
SuLogin ==
    /\ nreq < MaxSetupOps
    /\ \E b \in [ok : {TRUE}, username : {"root", "ann"}, password : {"pw1"}] :
          LoginHandler(b)

\* POST /v1/admin/users, in one step: it makes one call of the Database
SuCreateUserByAdmin ==
    /\ nreq < MaxSetupOps
    /\ nextUuid < MaxUuid
    /\ \E hdr \in GoodHeaders :
          CreateUserHandler(hdr, [ok |-> TRUE, username |-> "bob", email |-> "e1",
                                  password |-> "pw1", role |-> "user"])

NextSetup ==
    \/ SuIsSetupComplete
    \/ SuCreateUser
    \/ SuCompleteSetup
    \/ SuLogin
    \/ SuCreateUserByAdmin

SpecSetup == Init /\ [][NextSetup]_vars

(***************************************************************************)
(* An update served at once with the delete of the same record: the update *)
(* handlers re-read the record after the update, in a second call of the   *)
(* Database.                                                               *)
(***************************************************************************)
\* UpdateResourceWithDynamicEndpoint up to and including
\* Database.UpdateResource
RcUpdateResourceBegin ==
    /\ nreq < MaxInFlightOps
    /\ \E g \in Goroutines, hdr \in GoodHeaders, id \in FnResourceIDs,
          b \in {x \in UpdateResourceBodies : x.ok /\ x.data \in {NilData, PlainData("resp1")}} :
          LET a == Auth(hdr) IN
          /\ calls[g].pc \in {"idle", "done"}
          /\ IF ~a.pass \/ id \notin DOMAIN Resources \/ ~MayModify(a.claims, Resources[id])
             THEN /\ UpdateResourceHandler(hdr, id, b)
                  /\ Len(routes') <= MaxRoutes
             ELSE /\ Resources' = DbUpdateResource(Resources, id,
                          [name |-> b.name, description |-> b.description, data |-> b.data])
                  /\ calls' = Goes(g, [pc |-> "GetResource", op |-> "UpdateResource",
                                       hdr |-> hdr, id |-> id, body |-> b])
                  /\ nreq' = nreq + 1
                  /\ UNCHANGED <<Users, Setup, routes, tokens, nextUuid, last, inflight,
                                 mutex>>

\* UpdateResourceWithDynamicEndpoint from its second Database.GetResource
\* on: the error of the call is dropped, and with no resource found the
\* handler dereferences a nil pointer at updatedResource.Data, before it
\* has written anything
RcUpdateResourceEnd ==
    /\ \E g \in Goroutines :
          /\ calls[g].pc = "GetResource"
          /\ LET c       == calls[g]
                 found   == c.id \in DOMAIN Resources
                 outcome == IF ~found
                            THEN Panicked("invalid memory address or nil pointer dereference",
                                          NoBody)
                            ELSE Returned(writeSuccessResponse(
                                     [kind |-> "resource", resource |-> Resources[c.id]]))
             IN  /\ routes' = IF found THEN RegisterFor(routes, Resources[c.id]) ELSE routes
                 /\ last' = [op |-> "UpdateResource", method |-> "PUT",
                             path |-> "/resources/{id}", hdr |-> c.hdr,
                             arg |-> [id |-> c.id, body |-> c.body],
                             registered |-> FALSE, resp |-> Recovery(outcome)]
                 /\ calls' = Goes(g, [pc |-> "done", op |-> "UpdateResource", id |-> c.id,
                                      panicked |-> outcome.panicked])
    /\ UNCHANGED <<Users, Resources, Setup, tokens, nextUuid, nreq, inflight, mutex>>

\* DELETE /v1/resources/{id}
RcDeleteResource ==
    /\ nreq < MaxInFlightOps
    /\ \E hdr \in GoodHeaders, id \in FnResourceIDs :
          DeleteResourceHandler(hdr, id)

NextUpdateDelete ==
    \/ RcUpdateUserBegin
    \/ RcUpdateUserEnd
    \/ RcDeleteUser
    \/ RcUpdateResourceBegin
    \/ RcUpdateResourceEnd
    \/ RcDeleteResource

SpecUpdateDelete == InitTenant /\ [][NextUpdateDelete]_vars

(***************************************************************************)
(* sync.RWMutex as the Database uses it.  A goroutine that cannot take the *)
(* lock blocks: a writer while anybody holds the lock, a reader while a    *)
(* writer holds it or waits for it.                                        *)
(***************************************************************************)
CanLock(m)  == m.w = 0 /\ \A g \in Goroutines : m.r[g] = 0
CanRLock(m) == m.w = 0 /\ m.waiting = {}

Lock(m, g)    == [m EXCEPT !.w = g, !.waiting = @ \ {g}]
Unlock(m, g)  == [m EXCEPT !.w = 0]
RLock(m, g)   == [m EXCEPT !.r[g] = @ + 1]
RUnlock(m, g) == [m EXCEPT !.r[g] = @ - 1]
Waits(m, g)   == [m EXCEPT !.waiting = @ \cup {g}]

(***************************************************************************)
(* A reader of a user record with Database.UpdateUser at once.  GetUser    *)
(* and GetUserByID return the pointer kept in the map, and their caller    *)
(* reads the fields after the read lock is released; UpdateUser assigns    *)
(* the fields of that same record one after the other under the write      *)
(* lock.                                                                   *)
(***************************************************************************)
\* how many store calls are started in a run of readers and writers
MaxReadOps == 2

\* the instant of the clock read of the next UpdateUser
RdNow == Clock + nreq + 1

\* the fields UpdateUser assigns, in the order of its statements
UpdateUserFields == <<"email", "password", "role", "updated_at">>

\* one statement of UpdateUser: the record after the i-th assignment
AssignField(user, updates, now, i) ==
    CASE i = 1 -> IF updates.email # "" THEN [user EXCEPT !.email = updates.email]
                  ELSE user
      [] i = 2 -> IF updates.password # <<>>
                  THEN [user EXCEPT !.password = updates.password] ELSE user
      [] i = 3 -> IF updates.role # "" THEN [user EXCEPT !.role = updates.role]
                  ELSE user
      [] OTHER -> [user EXCEPT !.updated_at = now]

\* Database.UpdateUser up to the lookup of the user, with the write lock
\* taken; before and after are the record as the call finds it and as it
\* leaves it
RdUpdateUserLock ==
    /\ nreq < MaxReadOps
    /\ CanLock(mutex)
    /\ \E g \in Goroutines, username \in {"ann", "bob"}, email \in {"", "e2"},
          password \in {<<>>, StHash2}, role \in {"", "user"} :
          LET updates == [email |-> email, password |-> password, role |-> role] IN
          /\ calls[g].pc \in {"idle", "done"}
          /\ IF username \notin DOMAIN Users
             THEN /\ calls' = Goes(g, [pc |-> "done", op |-> "UpdateUser",
                                       err |-> ErrUserNotFound])
                  /\ UNCHANGED mutex
             ELSE /\ calls' = Goes(g, [pc |-> "assign", op |-> "UpdateUser", next |-> 1,
                            username |-> username, updates |-> updates, now |-> RdNow,
                            before |-> Users[username],
                            after |-> DbUpdateUserAt(Users, username, updates,
                                                     RdNow)[username]])
                  /\ mutex' = Lock(mutex, g)
    /\ nreq' = nreq + 1
    /\ UNCHANGED <<Users, Resources, Setup, routes, tokens, nextUuid, last, inflight>>

\* the next assignment of UpdateUser to the stored record; the deferred
\* Unlock runs after the last one
RdUpdateUserAssign ==
    /\ \E g \in Goroutines :
          /\ calls[g].pc = "assign"
          /\ mutex.w = g
          /\ LET c == calls[g] IN
             /\ Users' = [Users EXCEPT ![c.username] =
                             AssignField(@, c.updates, c.now, c.next)]
             /\ IF c.next < Len(UpdateUserFields)
                THEN /\ calls' = Goes(g, [c EXCEPT !.next = @ + 1])
                     /\ UNCHANGED mutex
                ELSE /\ calls' = Goes(g, [c EXCEPT !.pc = "done"])
                     /\ mutex' = Unlock(mutex, g)
    /\ UNCHANGED <<Resources, Setup, routes, tokens, nextUuid, nreq, last, inflight>>

\* Database.GetUser under the read lock: the pointer it returns, kept here
\* as the key of the record
RdGetUser ==
    /\ nreq < MaxReadOps
    /\ CanRLock(mutex)
    /\ \E g \in Goroutines, username \in {"ann", "bob"} :
          /\ calls[g].pc \in {"idle", "done"}
          /\ LET got == DbGetUser(Users, username) IN
             calls' = Goes(g, IF got.err # ""
                              THEN [pc |-> "done", op |-> "GetUser", err |-> got.err]
                              ELSE [pc |-> "fields", op |-> "GetUser",
                                    ptr |-> username])
    /\ nreq' = nreq + 1
    /\ UNCHANGED <<Users, Resources, Setup, routes, tokens, nextUuid, last, inflight,
                   mutex>>

\* the caller of GetUser reads the fields of the record through the
\* pointer, holding no lock
RdReadFields ==
    /\ \E g \in Goroutines :
          /\ calls[g].pc = "fields"
          /\ calls' = Goes(g, [pc |-> "done", op |-> "GetUser", err |-> "",
                               ptr |-> calls[g].ptr, seen |-> Users[calls[g].ptr]])
    /\ UNCHANGED <<Users, Resources, Setup, routes, tokens, nextUuid, nreq, last,
                   inflight, mutex>>

NextRead ==
    \/ RdUpdateUserLock
    \/ RdUpdateUserAssign
    \/ RdGetUser
    \/ RdReadFields

SpecRead == InitTenant /\ [][NextRead]_vars

(***************************************************************************)
(* Registrations of dynamic routes and dispatch at once.  The route table  *)
(* is the slice of routes of the protected subrouter; neither              *)
(* DynamicRouter.AddDynamicEndpoint nor APIHandlers.AddDynamicEndpoint nor *)
(* the router takes a lock.  router.HandleFunc(path, handler) appends the  *)
(* route to the table, and .Methods(method) then adds the method matcher   *)
(* to the appended route: until then the route matches every method.       *)
(***************************************************************************)
\* how many requests are started in a run of registrations and dispatches
MaxRouteOps == 3

\* the goroutines between router.HandleFunc and .Methods
Registering == {g \in Goroutines : calls[g].pc = "Methods"}

\* indexes of the routes that match a request, in the table as it is now
RtMatching(method, path) ==
    {i \in 1..Len(routes) :
        /\ routes[i].path = path
        /\ \/ routes[i].method = method
           \/ \E g \in Registering : calls[g].idx = i}

\* POST /v1/resources with endpoint data, up to the call of
\* dynamicRouter.AddDynamicEndpoint: the resource is stored
RtCreateResource ==
    /\ nreq < MaxRouteOps
    /\ \E g \in Goroutines, hdr \in GoodHeaders,
          data \in {EndpointData("/x", "GET", "resp1"), EndpointData("/x", "POST", "resp2")} :
          LET a        == Auth(hdr)
              resource == Resource(Uuid(nextUuid + 1), "n1", "", data, a.claims.user_id)
          IN  /\ calls[g].pc \in {"idle", "done"}
              /\ a.pass
              /\ HasEndpointData(resource.data)
              /\ nextUuid' = nextUuid + 1
              /\ Resources' = DbCreateResource(Resources, resource)
              /\ calls' = Goes(g, [pc |-> "HandleFunc", op |-> "CreateResource",
                                   hdr |-> hdr, resource |-> resource])
    /\ nreq' = nreq + 1
    /\ UNCHANGED <<Users, Setup, routes, tokens, last, inflight, mutex>>

\* router.HandleFunc(routePath, handler): the route is in the table
RtHandleFunc ==
    /\ \E g \in Goroutines :
          /\ calls[g].pc = "HandleFunc"
          /\ routes' = RegisterFor(routes, calls[g].resource)
          /\ calls' = Goes(g, [calls[g] EXCEPT !.pc = "Methods"] @@
                              [idx |-> Len(routes) + 1])
    /\ UNCHANGED <<Users, Resources, Setup, tokens, nextUuid, nreq, last, inflight,
                   mutex>>

\* .Methods(method) on the appended route, and the answer of the handler
RtMethods ==
    /\ \E g \in Goroutines :
          /\ calls[g].pc = "Methods"
          /\ calls' = Goes(g, [calls[g] EXCEPT !.pc = "done"])
          /\ last' = [op |-> "CreateResource", method |-> "POST", path |-> "/resources",
                      hdr |-> calls[g].hdr, arg |-> calls[g].resource.data,
                      registered |-> FALSE,
                      resp |-> writeSuccessResponse(
                                  [kind |-> "resource", resource |-> calls[g].resource])]
    /\ UNCHANGED <<Users, Resources, Setup, routes, tokens, nextUuid, nreq, inflight,
                   mutex>>

\* {METHOD} /v1/x: the router walks the route table and serves the request
\* with the first route that matches
RtDispatch ==
    /\ nreq < MaxRouteOps
    /\ \E g \in Goroutines, method \in Methods, hdr \in GoodHeaders :
          LET m == RtMatching(method, "/x")
              a == Auth(hdr)
          IN  /\ calls[g].pc \in {"idle", "done"}
              /\ calls' = Goes(g, [pc |-> "done", op |-> "Dispatch", seq |-> nreq + 1,
                         method |-> method,
                         resp |-> IF m = {}
                                  THEN Response(StatusNotFound, "ENDPOINT_NOT_FOUND",
                                                "The requested endpoint was not found",
                                                NoBody)
                                  ELSE DynamicResponse(routes[Min(m)], a.claims)])
    /\ nreq' = nreq + 1
    /\ UNCHANGED <<Users, Resources, Setup, routes, tokens, nextUuid, last, inflight,
                   mutex>>

NextRoutes ==
    \/ RtCreateResource
    \/ RtHandleFunc
    \/ RtMethods
    \/ RtDispatch

SpecRoutes == InitTenant /\ [][NextRoutes]_vars

(***************************************************************************)
(* Resources with and without endpoint data: the create and update         *)
(* handlers and APIHandlers.LoadExistingEndpoints on the store they leave. *)
(***************************************************************************)
\* how many requests are served in a run over endpoint data
MaxEndpointOps == 3

\* the data of the requests: none, a response only, all three keys, no
\* response key, and an endpoint that is not a string
EpData ==
    {NilData, PlainData("resp1"), EndpointData("/x", "GET", "resp1"),
     MapData([k \in {"endpoint", "method"} |->
                 IF k = "endpoint" THEN Str("/x") ELSE Str("GET")]),
     MapData([k \in {"endpoint", "method", "response"} |->
                 CASE k = "endpoint" -> Num(7)
                   [] k = "method"   -> Str("GET")
                   [] OTHER          -> Obj("resp1")])}

\* POST /v1/resources
EpCreateResource ==
    /\ nreq < MaxEndpointOps
    /\ \E hdr \in GoodHeaders, data \in EpData :
          CreateResourceHandler(hdr, [ok |-> TRUE, name |-> "n1", description |-> "",
                                      data |-> data])

\* PUT /v1/resources/{id}
EpUpdateResource ==
    /\ nreq < MaxEndpointOps
    /\ \E hdr \in GoodHeaders, id \in DOMAIN Resources, data \in EpData :
          UpdateResourceHandler(hdr, id, [ok |-> TRUE, name |-> "n2", description |-> "",
                                          data |-> data])

\* LoadExistingEndpoints on a router without dynamic routes, as at the
\* start of the server
EpLoadExistingEndpoints ==
    /\ nreq < MaxEndpointOps
    /\ last' = Applied("LoadExistingEndpoints", [resources |-> Range(Resources)],
                       [routes |-> LoadExistingEndpoints(<<>>, Range(Resources))])
    /\ nreq' = nreq + 1
    /\ UNCHANGED <<Users, Resources, Setup, routes, tokens, nextUuid, inflight,
                   calls, mutex>>

NextEndpoints ==
    \/ EpCreateResource
    \/ EpUpdateResource
    \/ EpLoadExistingEndpoints

SpecEndpoints == InitTenant /\ [][NextEndpoints]_vars

(***************************************************************************)
(* Calls of the Database at once, with the lock of the Database taken and  *)
(* released as each method does it.  A goroutine that calls Lock while the *)
(* lock is held joins the waiting writers, and no reader gets the lock     *)
(* while a writer waits.                                                   *)
(***************************************************************************)
\* how many calls of the Database are started in a run
MaxLockOps == 3

\* Database.GetExistingRoutes: takes no lock
GetExistingRoutes ==
    {"/setup", "/login", "/status", "/health", "/v1/ping", "/v1/users/me",
     "/v1/resources", "/v1/admin/users"}

\* "/v1" + route, for the routes and endpoints of a run
PrefixV1(route) ==
    CASE route = "/setup"          -> "/v1/setup"
      [] route = "/login"          -> "/v1/login"
      [] route = "/status"         -> "/v1/status"
      [] route = "/health"         -> "/v1/health"
      [] route = "/v1/ping"        -> "/v1/v1/ping"
      [] route = "/v1/users/me"    -> "/v1/v1/users/me"
      [] route = "/v1/resources"   -> "/v1/v1/resources"
      [] route = "/v1/admin/users" -> "/v1/v1/admin/users"
      [] route = "/x"              -> "/v1/x"
      [] OTHER                     -> "/v1/?"

\* Database.ValidateEndpointConflict: TRUE for a conflict
ValidateEndpointConflict(resources, endpoint) ==
    \/ \E route \in GetExistingRoutes : endpoint = route \/ endpoint = PrefixV1(route)
    \/ \E r \in Range(resources) :
          /\ ~r.data.nil
          /\ HasString(r.data, "endpoint")
          /\ \/ endpoint = r.data.m["endpoint"][2]
             \/ endpoint = PrefixV1(r.data.m["endpoint"][2])

\* Database.GetStats; no audit log is written in a run
GetStats(users, resources, setup) ==
    [total_users |-> Cardinality(DOMAIN users),
     total_resources |-> Cardinality(DOMAIN resources),
     total_audit_logs |-> Cardinality({}),
     setup_complete |-> setup]

\* the methods of the Database that write
LockWriters == {"DeleteUserWithCascade", "CompleteSetup"}

\* a DeleteUserWithCascade that deletes through Database.DeleteUser, which
\* takes the lock again
LockPlan_cascadeCallsDeleteUser(op) ==
    IF op = "DeleteUserWithCascade" THEN <<"Lock", "Lock", "Unlock", "Unlock">>
    ELSE IF op \in LockWriters THEN <<"Lock", "Unlock">>
    ELSE <<"RLock", "RUnlock">>

\* what a method does with the lock, in order: Lock or RLock at its start
\* and the deferred Unlock or RUnlock at its return
LockPlan(op) ==
    IF op \in LockWriters THEN <<"Lock", "Unlock">> ELSE <<"RLock", "RUnlock">>

\* the calls of a run
LockCalls ==
    [op : {"DeleteUserWithCascade"}, arg : {"ann", "bob"}]
        \cup [op : {"ValidateEndpointConflict"}, arg : {"/x", "/v1/setup"}]
        \cup [op : {"GetStats", "IsSetupComplete", "CompleteSetup"}, arg : {""}]

\* what a call returns, computed under the lock
LockResult(op, arg) ==
    CASE op = "DeleteUserWithCascade"    -> [err |-> DbUserErr(Users, arg)]
      [] op = "ValidateEndpointConflict" -> [conflict |-> ValidateEndpointConflict(Resources, arg)]
      [] op = "GetStats"                 -> GetStats(Users, Resources, Setup)
      [] op = "IsSetupComplete"          -> [complete |-> IsSetupComplete(Setup)]
      [] OTHER                           -> [err |-> ""]

\* a goroutine calls a method of the Database
LkCall ==
    /\ nreq < MaxLockOps
    /\ \E g \in Goroutines, c \in LockCalls :
          /\ calls[g].pc \in {"idle", "done"}
          /\ calls' = Goes(g, [pc |-> "run", op |-> c.op, arg |-> c.arg,
                               plan |-> LockPlan(c.op), at |-> 1])
    /\ nreq' = nreq + 1
    /\ UNCHANGED <<Users, Resources, Setup, routes, tokens, nextUuid, last, inflight,
                   mutex>>

\* Lock or RLock returns: the goroutine has the lock
LkAcquire ==
    /\ \E g \in Goroutines :
          /\ calls[g].pc = "run"
          /\ LET c == calls[g] IN
             /\ \/ c.plan[c.at] = "Lock" /\ CanLock(mutex) /\ mutex' = Lock(mutex, g)
                \/ c.plan[c.at] = "RLock" /\ CanRLock(mutex) /\ mutex' = RLock(mutex, g)
             /\ calls' = Goes(g, [c EXCEPT !.at = @ + 1])
    /\ UNCHANGED <<Users, Resources, Setup, routes, tokens, nextUuid, nreq, last,
                   inflight>>

\* Lock finds the lock held: the goroutine waits, and holds readers off
LkBlock ==
    /\ \E g \in Goroutines :
          /\ calls[g].pc = "run"
          /\ calls[g].plan[calls[g].at] = "Lock"
          /\ ~CanLock(mutex)
          /\ g \notin mutex.waiting
          /\ mutex' = Waits(mutex, g)
    /\ UNCHANGED <<Users, Resources, Setup, routes, tokens, nextUuid, nreq, last,
                   inflight, calls>>

\* the body of the method under the lock and its deferred Unlock or
\* RUnlock; after the last one the call returns
LkRelease ==
    /\ \E g \in Goroutines :
          /\ calls[g].pc = "run"
          /\ LET c     == calls[g]
                 final == c.at = Len(c.plan)
                 after == DeleteUserWithCascade(Users, Resources, c.arg)
             IN
             /\ \/ c.plan[c.at] = "Unlock" /\ mutex' = Unlock(mutex, g)
                \/ c.plan[c.at] = "RUnlock" /\ mutex' = RUnlock(mutex, g)
             /\ Users' = IF final /\ c.op = "DeleteUserWithCascade"
                         THEN after.users ELSE Users
             /\ Resources' = IF final /\ c.op = "DeleteUserWithCascade"
                             THEN after.resources ELSE Resources
             /\ Setup' = IF final /\ c.op = "CompleteSetup" THEN TRUE ELSE Setup
             /\ IF final
                THEN /\ calls' = Goes(g, [pc |-> "done", op |-> c.op, arg |-> c.arg])
                     /\ last' = Applied(c.op, c.arg, LockResult(c.op, c.arg))
                ELSE /\ calls' = Goes(g, [c EXCEPT !.at = @ + 1])
                     /\ UNCHANGED last
    /\ UNCHANGED <<routes, tokens, nextUuid, nreq, inflight>>

NextLock ==
    \/ LkCall
    \/ LkAcquire
    \/ LkBlock
    \/ LkRelease

\* every goroutine is scheduled again and again
SpecLock == InitTenant /\ [][NextLock]_vars /\ WF_vars(NextLock)

(***************************************************************************)
(* The functions of pkg/auth, the Auth middleware and the permission tests *)
(* of the User model applied to drawn inputs: none of them reads or writes *)
(* the stores.                                                             *)
(***************************************************************************)
\* the role lists of claims and the role arguments of HasAnyRole: every list
\* of at most two of the roles, repeats included
FnRoleSeqs ==
    LET R == {"user", "admin", "super_admin"} IN
    {<<>>} \cup { <<r>> : r \in R } \cup { <<r, q>> : r \in R, q \in R }

\* Claims.HasRole of the first of the roles asked for and Claims.HasAnyRole
\* of all of them, in the order given and in the reverse order
FnHasAnyRole ==
    /\ \E held \in FnRoleSeqs, asked \in FnRoleSeqs \ {<<>>} :
          LET claims == [user_id |-> SetupID, username |-> "root", roles |-> held]
              back   == [i \in 1 .. Len(asked) |-> asked[Len(asked) + 1 - i]]
          IN  last' = Applied("HasAnyRole", [claims |-> claims, roles |-> asked],
                              [hasRole  |-> HasRole(claims, asked[1]),
                               hasAny   |-> HasAnyRole(claims, asked),
                               hasAnyBack |-> HasAnyRole(claims, back),
                               hasNone  |-> HasAnyRole(claims, <<>>)])
    /\ UNCHANGED <<Users, Resources, Setup, routes, tokens, nextUuid, nreq, inflight,
                   calls, mutex>>

\* User.CanViewResource and User.CanManageResource of an actor of any role,
\* created by nobody, by the super-admin or by an admin, on a resource
\* created by the actor, by the creator of the actor or by somebody else
FnPermissions ==
    /\ \E role \in {"user", "admin", "super_admin"},
          actorCreatedBy \in {NoID, SetupID, Uuid(1)},
          owner \in {SetupID, Uuid(1), Uuid(2), Uuid(3)} :
          LET actor    == User(Uuid(2), "bob", "e1", StHash, role, actorCreatedBy)
              resource == Resource(Uuid(1), "n1", "", NilData, owner)
          IN  last' = Applied("Permissions", [actor |-> actor, resource |-> resource],
                              [canView   |-> CanViewResource(actor, resource),
                               canManage |-> CanManageResource(actor, resource)])
    /\ UNCHANGED <<Users, Resources, Setup, routes, tokens, nextUuid, nreq, inflight,
                   calls, mutex>>

\* Database.GetResourceWithOwnership called for a requester with the
\* arguments taken from the user record of the requester, on a store that
\* holds the resource, next to User.CanViewResource of the two
FnOwnershipLookup ==
    /\ \E role \in {"user", "admin", "super_admin"},
          actorCreatedBy \in {NoID, SetupID, Uuid(1)},
          owner \in {SetupID, Uuid(1), Uuid(2), Uuid(3)} :
          LET requester == User(Uuid(2), "bob", "e1", StHash, role, actorCreatedBy)
              resource  == Resource(Uuid(1), "n1", "", NilData, owner)
              store     == DbCreateResource([i \in {} |-> NoResource], resource)
          IN  last' = Applied("OwnershipLookup",
                              [requester |-> requester, resource |-> resource],
                              [lookup  |-> GetResourceWithOwnership(store, resource.id,
                                              requester.id, IsSuperAdmin(requester),
                                              requester.created_by),
                               canView |-> CanViewResource(requester, resource)])
    /\ UNCHANGED <<Users, Resources, Setup, routes, tokens, nextUuid, nreq, inflight,
                   calls, mutex>>

NextAuth ==
    \/ FnOwnershipLookup
    \/ FnGenerateToken
    \/ FnValidateToken
    \/ FnAuth
    \/ FnExtractBearerToken
    \/ FnCheckPassword
    \/ FnHasAnyRole
    \/ FnPermissions

SpecAuth == Init /\ [][NextAuth]_vars

(***************************************************************************)
(* Properties.                                                             *)
(***************************************************************************)

C2_ExactlyOneSuperAdmin ==
    Setup =>
        /\ Cardinality({n \in DOMAIN Users : IsSuperAdmin(Users[n])}) = 1
        /\ \A n \in DOMAIN Users : IsSuperAdmin(Users[n]) => Users[n].id = SetupID

\* C3: a request to the path and method of a registered dynamic route that
\* carries no Authorization header, a malformed one, or an expired or
\* forged token is answered 401 and never with the canned response.
C3_DynamicRouteRequiresAuth ==
    (last.op # "none" /\ last.registered /\ last.hdr \in BadHeaders) =>
        /\ last.resp.status = StatusUnauthorized
        /\ last.resp.body.kind # "dynamic"

\* C4: a request to one of the /admin/users operations whose valid token
\* carries only the role user is answered 403 and leaves the users unchanged.
C4_UserRoleForbiddenOnAdmin ==
    [][ (/\ last'.op \in {"ListUsers", "CreateUser", "UpdateUserByAdmin", "DeleteUser"}
         /\ last'.hdr \in GoodHeaders
         /\ last'.hdr[2].roles = <<"user">>)
        => (/\ last'.resp.status = StatusForbidden
            /\ Users' = Users)
      ]_vars

\* a user-role token was refused on DELETE /admin/users/{id}
C4_Witness ==
    /\ last.op = "DeleteUser"
    /\ last.hdr \in GoodHeaders
    /\ last.hdr[2].roles = <<"user">>
    /\ last.resp.status = StatusForbidden
    /\ Cardinality(DOMAIN Users) >= 2

\* C5 as stated: an update or delete of a stored resource by claims without
\* the admin role and with a user_id other than the resource's created_by
\* is answered 403, and the resource and the routes are unchanged.
C5_NonOwnerAlwaysForbidden ==
    [][ (/\ last'.op \in {"UpdateResource", "DeleteResource"}
         /\ last'.hdr \in GoodHeaders
         /\ last'.arg.id \in DOMAIN Resources
         /\ ~HasRole(ClaimsOf(last'.hdr[2]), "admin")
         /\ Resources[last'.arg.id].created_by # last'.hdr[2].user_id)
        => (/\ last'.resp.status = StatusForbidden
            /\ Resources' = Resources
            /\ routes' = routes)
      ]_vars

\* C5: an update or delete of a stored resource by claims without the admin
\* role and with a user_id other than the resource's created_by leaves the
\* resource and the routes unchanged; it is answered 403, except that an
\* update whose body does not parse is answered 400 before the permission
\* test is reached.
C5_NonOwnerRefused ==
    [][ (/\ last'.op \in {"UpdateResource", "DeleteResource"}
         /\ last'.hdr \in GoodHeaders
         /\ last'.arg.id \in DOMAIN Resources
         /\ ~HasRole(ClaimsOf(last'.hdr[2]), "admin")
         /\ Resources[last'.arg.id].created_by # last'.hdr[2].user_id)
        => (/\ IF last'.op = "UpdateResource" /\ ~last'.arg.body.ok
               THEN last'.resp.status = StatusBadRequest
               ELSE last'.resp.status = StatusForbidden
            /\ Resources' = Resources
            /\ routes' = routes)
      ]_vars

\* a plain user was refused the update of a resource of somebody else
C5_Witness ==
    /\ last.op = "UpdateResource"
    /\ last.hdr \in GoodHeaders
    /\ last.hdr[2].roles = <<"user">>
    /\ last.arg.id \in DOMAIN Resources
    /\ Resources[last.arg.id].created_by # last.hdr[2].user_id
    /\ last.arg.body.ok
    /\ last.resp.status = StatusForbidden

\* C6: resource tenant isolation over HTTP.  For a caller B whose token has
\* the role admin and not super_admin, and a stored resource R created by
\* another user A who is an admin and not a super-admin: B's list-resources
\* response does not contain R, B's get-resource on R.id does not return R,
\* and B's update or delete on R.id leaves R as it was.
C6_ResourceTenantIsolation ==
    [][ \A t \in tokens : \A id \in DOMAIN Resources :
          LET B == ClaimsOf(t)
              R == Resources[id] IN
          (/\ last'.hdr = <<"Bearer", t>>
           /\ HasRole(B, "admin") /\ ~HasRole(B, "super_admin")
           /\ R.created_by # B.user_id
           /\ \E n \in DOMAIN Users : /\ Users[n].id = R.created_by
                                      /\ IsAdmin(Users[n]) /\ ~IsSuperAdmin(Users[n]))
          => /\ last'.op = "ListResources" => R \notin last'.resp.body.resources
             /\ (last'.op = "GetResource" /\ last'.arg.id = id) =>
                    last'.resp.body # [kind |-> "resource", resource |-> R]
             /\ (last'.op \in {"UpdateResource", "DeleteResource"} /\ last'.arg.id = id) =>
                    (id \in DOMAIN Resources' /\ Resources'[id] = R)
      ]_vars

C8_StoreOwnershipIsolation ==
    /\ last.op = "ListResourcesByCreator" =>
          last.result =
              {Resources[i] : i \in {j \in DOMAIN Resources :
                                        \/ last.arg.isSuperAdmin
                                        \/ Resources[j].created_by = last.arg.creatorID}}
    /\ last.op = "GetResourceWithOwnership" =>
          LET a == last.arg IN
          (\/ a.resourceID \notin DOMAIN Resources
           \/ /\ ~a.isSuperAdmin
              /\ Resources[a.resourceID].created_by # a.requesterID
              /\ Resources[a.resourceID].created_by # a.requesterCreatedBy)
          => last.result = [found |-> FALSE, resource |-> NoResource,
                            err |-> ErrResourceNotFound]

\* a stored resource was looked up by a requester with no visibility of it
C8_Witness ==
    /\ last.op = "GetResourceWithOwnership"
    /\ last.arg.resourceID \in DOMAIN Resources
    /\ ~last.arg.isSuperAdmin
    /\ Resources[last.arg.resourceID].created_by # last.arg.requesterID
    /\ Resources[last.arg.resourceID].created_by # last.arg.requesterCreatedBy
    /\ last.result.err = ErrResourceNotFound

\* C9: the role gate has three outcomes: RequireRole answers 401 when the
\* request carries no claims, 403 when the claims share no role with the
\* required ones, and passes the request on otherwise; and a request to the
\* admin-only route with a missing, malformed, expired or forged token is
\* answered 401, not 403, because Auth runs first.
C9_RoleGateOutcomes ==
    /\ last.op = "RequireRole" =>
          LET a == last.arg IN
          IF ~a.hasClaims
          THEN ~last.result.pass /\ last.result.err.status = StatusUnauthorized
          ELSE IF \A i \in 1..Len(a.roles), j \in 1..Len(a.claims.roles) :
                      a.roles[i] # a.claims.roles[j]
          THEN ~last.result.pass /\ last.result.err.status = StatusForbidden
          ELSE last.result = [pass |-> TRUE, err |-> NoBody]
    /\ (last.op = "ListUsers" /\ last.hdr \in BadHeaders) =>
          last.resp.status = StatusUnauthorized

\* the role gate met a request without claims
C9_Witness ==
    /\ last.op = "RequireRole"
    /\ ~last.arg.hasClaims
    /\ last.result.err.status = StatusUnauthorized

\* C10: after a successful create-resource request whose data holds a
\* string endpoint, a string method and a response, a request with that
\* method to that endpoint made with any issued token is dispatched to a
\* dynamic route and answered 200 with exactly that response and the user
\* and user_id of the token of the caller.
C10_CreatedEndpointServesItsResponse ==
    [][ (/\ last'.op = "CreateResource"
         /\ last'.resp.status = StatusOK
         /\ HasEndpointData(last'.arg.data))
        => LET endpoint == last'.arg.data.m["endpoint"][2]
               method   == last'.arg.data.m["method"][2]
               response == last'.arg.data.m["response"][2]
               m        == Match(routes', method, endpoint) IN
           /\ m.kind = "dynamic"
           /\ \A t \in tokens' :
                 LET resp == DynamicResponse(routes'[m.idx], ClaimsOf(t)) IN
                 /\ resp.status = StatusOK
                 /\ resp.body.response = response
                 /\ resp.body.user = t.username
                 /\ resp.body.user_id = t.user_id
      ]_vars

\* C11: when a resource whose endpoint is served by its dynamic route is
\* updated with the same endpoint and method and a new response, a request
\* to that endpoint made after the update is dispatched to a route that
\* answers the new response, not the one registered before the update.
C11_UpdateOverridesResponse ==
    [][ (/\ last'.op = "UpdateResource"
         /\ last'.resp.status = StatusOK
         /\ last'.arg.id \in DOMAIN Resources
         /\ HasEndpointData(Resources[last'.arg.id].data)
         /\ HasEndpointData(Resources'[last'.arg.id].data))
        => LET old == Resources[last'.arg.id].data.m
               new == Resources'[last'.arg.id].data.m
               before == Match(routes, old["method"][2], old["endpoint"][2])
               after  == Match(routes', new["method"][2], new["endpoint"][2]) IN
           (/\ new["endpoint"] = old["endpoint"]
            /\ new["method"] = old["method"]
            /\ new["response"] # old["response"]
            /\ before.kind = "dynamic"
            /\ routes[before.idx].response = old["response"][2])
           => (/\ after.kind = "dynamic"
               /\ routes'[after.idx].response = new["response"][2])
      ]_vars

\* C12: the registry and the store are consistent: every live dynamic
\* route is backed by a resource in the store whose data holds the route's
\* endpoint, method and response.
C12_RoutesBackedByResources ==
    \A i \in 1..Len(routes) :
        \E id \in DOMAIN Resources :
            /\ HasEndpointData(Resources[id].data)
            /\ Resources[id].data.m["endpoint"][2] = routes[i].path
            /\ Resources[id].data.m["method"][2] = routes[i].method
            /\ Resources[id].data.m["response"][2] = routes[i].response

\* C13: an authenticated create of a resource, or update of a stored
\* resource, whose data names the path of a static route as its endpoint is
\* refused with an error: no route is added and the resource is not stored
\* or changed.
C13_ReservedEndpointRejected ==
    [][ \A data \in DataValues :
          (/\ last'.hdr \in GoodHeaders
           /\ \/ last'.op = "CreateResource" /\ last'.arg.ok /\ last'.arg.data = data
              \/ /\ last'.op = "UpdateResource"
                 /\ last'.arg.id \in DOMAIN Resources
                 /\ last'.arg.body.ok /\ last'.arg.body.data = data
           /\ HasString(data, "endpoint")
           /\ \E i \in 1..Len(StaticRoutes) : StaticRoutes[i].path = data.m["endpoint"][2])
          => (/\ last'.resp.status # StatusOK
              /\ routes' = routes
              /\ Resources' = Resources)
      ]_vars

\* C14: a Login with an unknown username and a Login with a stored
\* username and a password that is not the user's are answered alike, 401
\* with the one message "Invalid credentials", and neither issues a token.
C14_LoginFailuresAlike ==
    [][ (/\ last'.op = "Login"
         /\ ValidLogin(last'.arg)
         /\ \/ last'.arg.username \notin DOMAIN Users
            \/ Users[last'.arg.username].password # HashPassword(last'.arg.password))
        => (/\ last'.resp = writeStandardError(StatusUnauthorized, "Invalid credentials")
            /\ tokens' = tokens)
      ]_vars

\* a Login for a stored user with a wrong password was refused
C14_Witness ==
    /\ last.op = "Login"
    /\ last.arg.username \in DOMAIN Users
    /\ Users[last.arg.username].password # HashPassword(last.arg.password)
    /\ last.resp.msg = "Invalid credentials"
    /\ \E n \in Usernames : n \notin DOMAIN Users

C16_TokenRoundTrip ==
    last.op = "ValidateToken" =>
        LET a == last.arg
            r == last.result
        IN  /\ (a.kind = "issued" /\ a.now < a.token.exp * TicksPerSecond) =>
                  /\ r.ok
                  /\ r.claims = [user_id |-> a.userID, username |-> a.username,
                                 roles |-> a.roles]
            /\ (a.kind = "issued" /\ a.now >= a.t1 + JWTExpiration * TicksPerSecond) =>
                  ~r.ok
            /\ a.kind \in {"other-secret", "altered", "not-hmac"} => ~r.ok

\* the issued token is validated before its expiry and gives its claims back
C16_Witness ==
    /\ last.op = "ValidateToken"
    /\ last.arg.kind = "issued"
    /\ last.arg.now = last.arg.token.exp * TicksPerSecond - 1
    /\ last.result.ok
    /\ last.result.claims.roles = <<"admin", "user">>

\* C17: in every token GenerateToken issues, iat and nbf are both the issue
\* instant in whole seconds and exp - iat is exactly the configured lifetime,
\* however the clock advances between the clock reads of GenerateToken
C17_TokenTimestamps ==
    last.op = "GenerateToken" =>
        /\ last.result.nbf = last.result.iat
        /\ last.result.exp - last.result.iat = JWTExpiration

\* C18: what Auth and RequireRole decide for an unexpired token depends on
\* the claims in the token only, never on the user store: a request on an
\* admin route with an issued token that carries the role admin gets past
\* both, whatever the store holds by then, also when the admin of the token
\* has been demoted or deleted since
C18_TrustedIssuer ==
    [][ (/\ last'.op \in {"ListUsers", "CreateUser", "UpdateUserByAdmin", "DeleteUser"}
         /\ last'.hdr \in GoodHeaders
         /\ ValidateToken(last'.hdr[2])
         /\ HasRole(ClaimsOf(last'.hdr[2]), "admin"))
        => last'.resp.msg \notin MiddlewareMessages
      ]_vars

\* the token of an admin who is no longer stored, or no longer stored as an
\* admin, listed the users
C18_Witness ==
    /\ last.op = "ListUsers"
    /\ last.hdr \in GoodHeaders
    /\ HasRole(ClaimsOf(last.hdr[2]), "admin")
    /\ ~\E u \in DOMAIN Users :
           Users[u].id = last.hdr[2].user_id /\ Users[u].role = "admin"
    /\ last.resp.status = StatusOK

\* C19: whichever check of the token fails in Auth (not a JWT, bad
\* signature, wrong signing method, expired, not yet valid), the answer is
\* one and the same: 401 UNAUTHORIZED with one fixed message, no claims, and
\* the request goes no further
C19_OneAnswerForEveryFailure ==
    (last.op = "Auth" /\ last.arg.kind \in FnAuthFailures) =>
        last.result = [pass |-> FALSE, claims |-> NoClaims,
                       err |-> Unauthorized("Invalid or expired token")]

\* an expired token, well formed and signed with the server secret, was
\* refused by Auth
C19_Witness ==
    /\ last.op = "Auth"
    /\ last.arg.kind = "expired"
    /\ last.arg.hdr[2].sig = Sign("HS256", JWTSecret, PayloadOf(last.arg.hdr[2]))
    /\ ~last.result.pass
    /\ last.result.err.status = StatusUnauthorized

C22_RoleMembership ==
    last.op = "HasAnyRole" =>
        LET held  == Range(last.arg.claims.roles)
            asked == Range(last.arg.roles)
        IN  /\ last.result.hasRole <=> (last.arg.roles[1] \in held)
            /\ last.result.hasAny <=> (held \cap asked # {})
            /\ last.result.hasAnyBack = last.result.hasAny
            /\ ~last.result.hasNone
            /\ held = {} => (~last.result.hasRole /\ ~last.result.hasAny)

\* claims whose second role only is among the roles asked for
C22_Witness ==
    /\ last.op = "HasAnyRole"
    /\ last.arg.claims.roles = <<"user", "admin">>
    /\ last.arg.roles = <<"super_admin", "admin">>
    /\ ~last.result.hasRole
    /\ last.result.hasAny

\* C23: a request made with the token of an admin who is not super-admin
\* never leaves a user with the role admin or super_admin who did not hold
\* that role before the request: a plain admin neither creates nor promotes
\* an admin account
C23_AdminCannotMakeAdmins ==
    [][ (/\ last'.hdr \in GoodHeaders
         /\ HasRole(ClaimsOf(last'.hdr[2]), "admin")
         /\ ~HasRole(ClaimsOf(last'.hdr[2]), "super_admin"))
        => \A u \in DOMAIN Users' :
              Users'[u].role \in {"admin", "super_admin"} =>
                 (u \in DOMAIN Users /\ Users[u].role = Users'[u].role)
      ]_vars

\* C24: Database.CreateUser with a username that is stored already returns
\* the user-exists error and leaves the record of that username and the rest
\* of the store as they were; with a new username it inserts the user and
\* changes nothing else, and GetUser(username) and GetUserByID(id) both
\* return the user after it
C24_CreateUserOnce ==
    [][ last'.op = "CreateUser" =>
          LET user == last'.arg.user
              r    == last'.result
          IN  /\ Resources' = Resources
              /\ IF user.username \in DOMAIN Users
                 THEN r.err = ErrUserExists /\ Users' = Users
                 ELSE /\ r.err = ""
                      /\ DOMAIN Users' = DOMAIN Users \cup {user.username}
                      /\ \A n \in DOMAIN Users : Users'[n] = Users[n]
                      /\ r.got.err = ""
                      /\ r.got.user = Users'[user.username]
                      /\ r.gotByID = {r.got.user}
                      /\ [r.got.user EXCEPT !.created_at = 0, !.updated_at = 0] = user
      ]_vars

\* a user was created under a username that another record held already,
\* with other fields than that record has
C24_Witness ==
    /\ last.op = "CreateUser"
    /\ last.result.err = ErrUserExists
    /\ last.arg.user.username = "ann"
    /\ Users["ann"].email # last.arg.user.email

\* C25: Database.UpdateUser on a stored user overwrites exactly those of
\* email, password hash and role that are non-empty in the updates, sets
\* updated_at to the instant of the call, and leaves the id, username,
\* created_by and created_at of the user and every other record as they
\* were; on an unknown username it returns the not-found error and changes
\* nothing.  No operation changes the username or the id of a stored user.
C25_UpdateUserFrame ==
    [][ /\ last'.op = "UpdateUser" =>
             LET n == last'.arg.username
                 u == last'.arg.updates
             IN  /\ Resources' = Resources
                 /\ IF n \notin DOMAIN Users
                    THEN last'.result.err = ErrUserNotFound /\ Users' = Users
                    ELSE /\ last'.result.err = ""
                         /\ DOMAIN Users' = DOMAIN Users
                         /\ \A m \in DOMAIN Users \ {n} : Users'[m] = Users[m]
                         /\ Users'[n] =
                              [Users[n] EXCEPT
                                 !.email    = IF u.email # "" THEN u.email ELSE @,
                                 !.password = IF u.password # <<>> THEN u.password ELSE @,
                                 !.role     = IF u.role # "" THEN u.role ELSE @,
                                 !.updated_at = last'.arg.now]
        /\ \A m \in DOMAIN Users \cap DOMAIN Users' :
              Users'[m].username = Users[m].username /\ Users'[m].id = Users[m].id
        /\ \A m \in DOMAIN Users' : Users'[m].username = m
      ]_vars

\* an update with a new email only was applied to a stored user, whose
\* password hash and role it left alone
C25_Witness ==
    /\ last.op = "UpdateUser"
    /\ last.arg.username = "ann"
    /\ last.arg.updates = [email |-> "e2", password |-> <<>>, role |-> ""]
    /\ last.result.err = ""
    /\ Users["ann"].email = "e2"
    /\ Users["ann"].password = StHash
    /\ Users["ann"].role = "user"
    /\ Users["ann"].updated_at > Users["ann"].created_at

\* C26: DeleteUserWithCascade on a stored admin or super-admin removes that
\* user, every user and every resource whose created_by is the id of that
\* user, and nothing else; on a stored plain user it removes that user only;
\* on an unknown username it returns the not-found error and leaves the
\* store as it was
C26_CascadeDelete ==
    [][ last'.op = "DeleteUserWithCascade" =>
          LET n == last'.arg.username IN
          IF n \notin DOMAIN Users
          THEN /\ last'.result.err = ErrUserNotFound
               /\ Users' = Users
               /\ Resources' = Resources
          ELSE LET u == Users[n]
                   cascades == u.role \in {"admin", "super_admin"}
                   goneUsers == IF cascades
                                THEN {n} \cup {m \in DOMAIN Users : Users[m].created_by = u.id}
                                ELSE {n}
                   goneResources == IF cascades
                                    THEN {i \in DOMAIN Resources :
                                            Resources[i].created_by = u.id}
                                    ELSE {}
               IN  /\ last'.result.err = ""
                   /\ DOMAIN Users' = DOMAIN Users \ goneUsers
                   /\ \A m \in DOMAIN Users' : Users'[m] = Users[m]
                   /\ DOMAIN Resources' = DOMAIN Resources \ goneResources
                   /\ \A i \in DOMAIN Resources' : Resources'[i] = Resources[i]
      ]_vars

\* a plain user who had created a user and a resource was deleted, and both
\* are still stored
C26_Witness ==
    /\ last.op = "DeleteUserWithCascade"
    /\ last.arg.username = "ann"
    /\ last.result.err = ""
    /\ "ann" \notin DOMAIN Users
    /\ "bob" \in DOMAIN Users
    /\ Users["bob"].created_by = StID("ann")
    /\ \E i \in DOMAIN Resources : Resources[i].created_by = StID("ann")

\* C27: in every reachable state the created_by of every resource, and of
\* every user other than the super-admin, is the id of a user in the store,
\* so that created_by forms a tree rooted at the super-admin
C27_CreatedByTree ==
    LET ids == {Users[n].id : n \in DOMAIN Users} IN
    /\ \A n \in DOMAIN Users :
          Users[n].id # SetupID => Users[n].created_by \in ids
    /\ \A i \in DOMAIN Resources : Resources[i].created_by \in ids

\* C28: when a handler panics while it serves a request, the Recovery
\* middleware catches the panic and answers with the generic 500
\* InternalServerError, which carries neither the value of the panic nor a
\* stack trace; the stores are as the handler left them, and the requests
\* that come later are served as ever
C28_PanicRecovered ==
    [][ /\ (inflight.busy /\ ~inflight'.busy /\ DbGetUserByID(Users, inflight.id) = {}) =>
             /\ last'.resp = Response(StatusInternalServerError, "INTERNAL_SERVER_ERROR",
                                      "Internal server error", NoBody)
             /\ inflight'.recovered = inflight.recovered + 1
             /\ UNCHANGED <<Users, Resources, Setup, routes, tokens>>
        /\ (/\ inflight.recovered > 0
            /\ last'.op = "DeleteUser"
            /\ nreq' = nreq + 1
            /\ DbGetUserByID(Users, last'.arg.id) # {}) =>
             /\ last'.resp.status = StatusOK
             /\ DbGetUserByID(Users', last'.arg.id) = {}
      ]_vars

\* a panic was caught and answered, and a request that came later was served
C28_Witness ==
    /\ inflight.recovered = 1
    /\ ~inflight.busy
    /\ last.op = "DeleteUser"
    /\ last.resp.status = StatusOK
    /\ nreq = MaxInFlightOps

\* C29: an actor of any role, a plain user included, can view and can
\* manage the resource whose created_by is the id of the actor
C29_OwnerViewsAndManages ==
    (/\ last.op = "Permissions"
     /\ last.arg.resource.created_by = last.arg.actor.id) =>
        (last.result.canView /\ last.result.canManage)

\* C30: whoever can manage a resource can view it; an actor of role user can
\* view every resource whose created_by is the created_by of the actor, and
\* cannot manage it unless the actor is super-admin
C30_ManageImpliesView ==
    last.op = "Permissions" =>
        LET actor    == last.arg.actor
            resource == last.arg.resource
        IN  /\ last.result.canManage => last.result.canView
            /\ (actor.role = "user" /\ resource.created_by = actor.created_by) =>
                  /\ last.result.canView
                  /\ last.result.canManage => actor.role = "super_admin"

\* a user looked at a resource of the admin who created the user
C30_Witness ==
    /\ last.op = "Permissions"
    /\ last.arg.actor.role = "user"
    /\ last.arg.actor.created_by = Uuid(1)
    /\ last.arg.resource.created_by = Uuid(1)
    /\ last.result.canView
    /\ ~last.result.canManage

\* C31: of the Setup requests served at once, at most one is answered with
\* success and at most one user is created by them
C31_SetupOnce ==
    /\ Cardinality({g \in Goroutines :
                      /\ calls[g].pc = "done"
                      /\ calls[g].op = "Setup"
                      /\ calls[g].resp.status = StatusAccepted}) <= 1
    /\ Cardinality({n \in DOMAIN Users : Users[n].id = SetupID}) <= 1

\* C36: no two users in the store have the same id, whatever the
\* interleaving of Setup and CreateUser requests
C36_UniqueUserIDs ==
    \A n1, n2 \in DOMAIN Users : Users[n1].id = Users[n2].id => n1 = n2

\* C32: a reader that got a user from the store and reads its fields while
\* an UpdateUser on the same record runs sees the record as it was before
\* the update or as it is after it, never with only some fields updated
C32_NoPartialUpdateSeen ==
    [][\A g, w \in Goroutines :
          (/\ calls[g].pc = "fields"
           /\ calls'[g].pc = "done"
           /\ calls[w].pc = "assign"
           /\ calls[w].username = calls[g].ptr)
          => calls'[g].seen \in {calls[w].before, calls[w].after}]_vars

\* C33: at most one request at a time is in the middle of changing the
\* route table, and no request is dispatched while one is
C33_SingleWriter ==
    /\ [](Cardinality(Registering) <= 1)
    /\ [][\A g \in Goroutines :
            (calls'[g] # calls[g] /\ calls'[g].pc = "done" /\ calls'[g].op = "Dispatch")
            => Registering = {}]_vars

\* C34: the resource update and delete handlers allow a request exactly
\* when CanManageResource(the user record of the actor, the resource) holds
C34_HandlersFollowPolicy ==
    [][ (/\ last'.op \in {"UpdateResource", "DeleteResource"}
         /\ last'.hdr \in GoodHeaders
         /\ Auth(last'.hdr).pass
         /\ last'.op = "UpdateResource" => last'.arg.body.ok
         /\ last'.arg.id \in DOMAIN Resources
         /\ DbGetUserByID(Users, last'.hdr[2].user_id) # {})
        => \A actor \in DbGetUserByID(Users, last'.hdr[2].user_id) :
              (last'.resp.status # StatusForbidden)
                 <=> CanManageResource(actor, Resources[last'.arg.id])
      ]_vars

\* C35: an update of a resource or of a user served at once with the delete
\* of the same record never goes on with the result of a re-read that
\* found nothing
C35_UpdateNeverUsesMissingRecord ==
    /\ inflight.recovered = 0
    /\ \A g \in Goroutines :
          (calls[g].pc = "done" /\ calls[g].op = "UpdateResource") => ~calls[g].panicked

\* C37: a resource created or updated whose data is absent or lacks a string
\* endpoint, a string method or a response is stored and returned, and the
\* routes stay as they were; LoadExistingEndpoints registers one route for
\* each stored resource that carries all three keys and no other route
C37_NoEndpointNoRoute ==
    [][ /\ (/\ last'.op \in {"CreateResource", "UpdateResource"}
            /\ last'.resp.status = StatusOK
            /\ ~HasEndpointData(last'.resp.body.resource.data))
           => /\ routes' = routes
              /\ last'.resp.body.resource.id \in DOMAIN Resources'
              /\ Resources'[last'.resp.body.resource.id] = last'.resp.body.resource
        /\ last'.op = "LoadExistingEndpoints"
           => LET rs  == last'.arg.resources
                  out == last'.result.routes
              IN  /\ Len(out) = Cardinality({r \in rs : HasEndpointData(r.data)})
                  /\ \A r \in rs : HasEndpointData(r.data)
                        => \E i \in 1..Len(out) :
                              out[i] = [path |-> r.data.m["endpoint"][2],
                                        method |-> r.data.m["method"][2],
                                        response |-> r.data.m["response"][2]]
      ]_vars

\* a resource with an endpoint and a method and no response key was created
\* without a route, and LoadExistingEndpoints on a store that holds it next
\* to a resource with all three keys registered one route
C37_Witness ==
    /\ last.op = "LoadExistingEndpoints"
    /\ Len(last.result.routes) = 1
    /\ \E r \in last.arg.resources :
          /\ ~r.data.nil
          /\ DOMAIN r.data.m = {"endpoint", "method"}
    /\ Len(routes) = 1

\* C39: for a requester and a stored resource, GetResourceWithOwnership
\* called with the id, the super-admin flag and the created_by of the
\* requester returns the resource exactly when CanViewResource(requester,
\* resource) holds, and the not-found error otherwise
C39_LookupAgreesWithPolicy ==
    last.op = "OwnershipLookup" =>
        IF last.result.canView
        THEN /\ last.result.lookup.found
             /\ last.result.lookup.resource = last.arg.resource
        ELSE /\ ~last.result.lookup.found
             /\ last.result.lookup.err = ErrResourceNotFound

\* C38: a call of the store holds the lock at most once at a time, never
\* asks for it while holding it and holds nothing once it has returned;
\* and every call that was started returns
C38_CallsComplete ==
    /\ [](\A g \in Goroutines :
            /\ mutex.r[g] <= 1
            /\ ~(mutex.w = g /\ mutex.r[g] > 0)
            /\ g \in mutex.waiting => (mutex.w # g /\ mutex.r[g] = 0)
            /\ calls[g].pc # "run" => (mutex.w # g /\ mutex.r[g] = 0))
    /\ \A g \in Goroutines : (calls[g].pc = "run") ~> (calls[g].pc = "done")

\* a cascade delete and a read of the store, started at once, have both
\* returned and the lock is free
C38_Witness ==
    /\ \A g \in Goroutines : calls[g].pc = "done"
    /\ \E g \in Goroutines : calls[g].op = "DeleteUserWithCascade"
    /\ \E g \in Goroutines : calls[g].op \in {"GetStats", "ValidateEndpointConflict"}
    /\ mutex = Unlocked
    /\ nreq = MaxLockOps

====
